---- MODULE Spec2Model ----
(***************************************************************************)
(* A model of the auxmos gas-mixture core: the Mixture value type of       *)
(* crates/auxmos/src/gas/mixture.rs, the slot arena and the handle layer   *)
(* of src/gas.rs, and the host entry points of src/lib.rs.                 *)
(*                                                                         *)
(* Numbers.  An f32 is modelled as an integer in a unit fixed per          *)
(* quantity (temperature in tenths of a kelvin, moles and heat capacity in *)
(* whole units, ratios and multipliers in 1/Den), with three non-finite    *)
(* values NaN, PosInf and NegInf.  Rounding is truncation.                 *)
(* Indices.  Gas ids and arena indices are 0-based as in the source; the   *)
(* element of id i is at position i + 1 of a TLA+ sequence.                *)
(***************************************************************************)
EXTENDS Integers, Sequences, FiniteSets, TLC

\* ------------------------------------------------------------------ bounds
\* number of gases the host registered (total_num_gases())
NumGases == 2
\* number of host datums that own a gasmix handle
MaxDatums == 2
\* largest mole count an input or a growing operation may produce
MaxMoles == 4
\* a mole amount the host passes in
MolesIn == 2
\* a joule amount the host passes to adjust_heat
HeatIn == 400
\* a min_heat_capacity the host passes in
MinCapIn == 30
\* two initial volumes the host uses
VolA == 1
VolB == 2
\* a temperature (in tenths of a kelvin) the host passes in, above TCMB
TempIn == 40
\* how far below zero the live count may wrap before release is no longer explored
MaxUnderflow == 1
\* host worker threads calling into the arena at once
NumThreads == 2
\* number of Mixture operations applied to the built mixtures
MaxOps == 2
\* denominator of ratios and multipliers: k stands for k / Den
Den == 2

\* calls made on the two mixture forms side by side
MaxSteps == 3
\* a temperature (in tenths of a kelvin) below TCMB that set_temperature accepts
TempLow == 10

\* --------------------------------------------------------------- constants
NaN == 2000000001
PosInf == 2000000002
NegInf == 2000000003
\* 2.7 K, the temperature of a new mixture and the floor TCMB
TCMB == 27
\* 293.15 K, the temperature fix_corruption resets to
T_FIXED == 2931
\* the volume of Mixture::new()
DEFAULT_VOLUME == 2500
\* from constants.rs, by the glossary of the specification; both are below
\* one unit of the model's integers:
\* the threshold below which a mole count is treated as zero
GAS_MIN_MOLES == 0
\* the threshold below which temperature-affecting operations are skipped
MINIMUM_HEAT_CAPACITY == 0
\* the temperature difference below which no heat is exchanged, taken as half
\* a kelvin (constants.rs)
MINIMUM_TEMPERATURE_DELTA_TO_CONSIDER == 5
\* usize::MAX read as a two's complement number: the invalid Index
INVALID == -1

GasIds == 0 .. (NumGases - 1)

\* ------------------------------------------------------------------ floats
is_nan(x) == x = NaN

is_finite(x) == x # NaN /\ x # PosInf /\ x # NegInf

\* f32::is_normal: neither zero, infinite nor NaN (no subnormals in the model)
is_normal(x) == is_finite(x) /\ x # 0

\* a / b on f32
FDiv(a, b) ==
    IF ~is_finite(a) \/ ~is_finite(b) THEN NaN
    ELSE IF b = 0 THEN (IF a = 0 THEN NaN ELSE IF a > 0 THEN PosInf ELSE NegInf)
    ELSE a \div b

\* amt * k for a ratio or multiplier k given in 1/Den
FScale(amt, k) == (amt * k) \div Den

\* f32::max that returns its receiver whatever the argument
FMax_keeps_self(a, b) == a

FMax(a, b) == IF a >= b THEN a ELSE b

\* f32::clamp(0.0, 1.0) of a ratio given in 1/Den
clamp01(r) == IF r < 0 THEN 0 ELSE IF r > Den THEN Den ELSE r

\* ---------------------------------------------------------------- registry
\* GAS_SPECIFIC_HEAT: every test gas has specific heat 20
gas_specific_heat(idx) == 20

total_num_gases == NumGases

\* ----------------------------------------------------------------- Mixture
Mixture_new ==
    [ temperature |-> TCMB,
      volume |-> DEFAULT_VOLUME,
      min_heat_capacity |-> 0,
      moles |-> << >>,
      cached_heat_capacity |-> NaN,
      immutable |-> FALSE ]

from_vol(vol) == [Mixture_new EXCEPT !.volume = vol]

get_temperature(m) == m.temperature

get_moles(m, idx) == IF idx + 1 <= Len(m.moles) THEN m.moles[idx + 1] ELSE 0

is_immutable(m) == m.immutable

\* GasCache::invalidate
invalidate(m) == [m EXCEPT !.cached_heat_capacity = NaN]

set_temperature_unguarded(m, temp) == [m EXCEPT !.temperature = temp]

set_temperature(m, temp) ==
    IF ~m.immutable /\ is_normal(temp)
    THEN [m EXCEPT !.temperature = temp]
    ELSE m

set_min_heat_capacity(m, amt) == [m EXCEPT !.min_heat_capacity = amt]

mark_immutable(m) == [m EXCEPT !.immutable = TRUE]

\* Vec::resize(size, 0.0) when shorter
\* maybe_expand that never resizes
maybe_expand_never(m, size) == m

maybe_expand(m, size) ==
    IF Len(m.moles) < size
    THEN [m EXCEPT !.moles = [i \in 1 .. size |->
                                 IF i <= Len(m.moles) THEN m.moles[i] ELSE 0]]
    ELSE m

\* the last index whose amount is above GAS_MIN_MOLES, 0 when there is none
last_valid_found(ms) ==
    LET valid == {i \in 1 .. Len(ms) : ms[i] > GAS_MIN_MOLES}
    IN  IF valid = {} THEN 0
        ELSE (CHOOSE i \in valid : \A j \in valid : j <= i) - 1

garbage_collect(m) ==
    LET zeroed == [i \in 1 .. Len(m.moles) |->
                      IF m.moles[i] > GAS_MIN_MOLES THEN m.moles[i] ELSE 0]
        keep == last_valid_found(m.moles) + 1
    IN  [m EXCEPT !.moles = SubSeq(zeroed, 1, IF keep < Len(zeroed) THEN keep ELSE Len(zeroed))]

set_moles(m, idx, amt) ==
    IF ~m.immutable
       /\ idx < total_num_gases
       /\ (idx <= Len(m.moles) \/ (amt > GAS_MIN_MOLES /\ is_normal(amt)))
    THEN LET e == maybe_expand(m, idx + 1)
         IN  invalidate([e EXCEPT !.moles[idx + 1] = amt])
    ELSE m

adjust_moles(m, idx, amt) ==
    IF ~m.immutable /\ is_normal(amt) /\ idx < total_num_gases
    THEN LET e == maybe_expand(m, idx + 1)
             r == [e EXCEPT !.moles[idx + 1] = @ + amt]
         IN  invalidate(IF amt <= 0 THEN garbage_collect(r) ELSE r)
    ELSE m

\* the loop of adjust_multi over the adjustments, from position k on
RECURSIVE adjust_multi_loop(_, _, _)
adjust_multi_loop(ms, adjustments, k) ==
    IF k > Len(adjustments) THEN ms
    ELSE LET idx == adjustments[k][1]
             amt == adjustments[k][2]
         IN  IF idx < total_num_gases /\ is_normal(amt)
             THEN adjust_multi_loop([ms EXCEPT ![idx + 1] = @ + amt], adjustments, k + 1)
             ELSE adjust_multi_loop(ms, adjustments, k + 1)

adjust_multi(m, adjustments) ==
    IF ~m.immutable
    THEN LET inrange == {adjustments[k][1] : k \in {j \in 1 .. Len(adjustments) :
                                                      adjustments[j][1] < total_num_gases}}
             top == IF inrange = {} THEN 0
                    ELSE CHOOSE i \in inrange : \A j \in inrange : j <= i
             e == maybe_expand(m, top + 1)
             applied == {k \in 1 .. Len(adjustments) :
                            adjustments[k][1] < total_num_gases /\ is_normal(adjustments[k][2])}
             dirty == applied # {}
             should_collect == \E k \in applied : adjustments[k][2] <= 0
             r == [e EXCEPT !.moles = adjust_multi_loop(e.moles, adjustments, 1)]
             d == IF dirty THEN invalidate(r) ELSE r
         IN  IF should_collect THEN garbage_collect(d) ELSE d
    ELSE m

\* the fold of slow_heat_capacity over moles zipped with the specific heats
RECURSIVE heat_fold(_, _)
heat_fold(ms, k) ==
    IF k > Len(ms) \/ k > total_num_gases THEN 0
    ELSE gas_specific_heat(k - 1) * ms[k] + heat_fold(ms, k + 1)

slow_heat_capacity(m) == FMax(heat_fold(m.moles, 1), m.min_heat_capacity)

\* GasCache::get_or_else: the value heat_capacity() returns
heat_capacity(m) ==
    IF is_nan(m.cached_heat_capacity) THEN slow_heat_capacity(m)
    ELSE m.cached_heat_capacity

\* heat_capacity() installs the value it computed in the cache (through &self)
cache_filled(m) == [m EXCEPT !.cached_heat_capacity = heat_capacity(m)]

RECURSIVE seq_sum(_, _)
seq_sum(ms, k) == IF k > Len(ms) THEN 0 ELSE ms[k] + seq_sum(ms, k + 1)

total_moles(m) == seq_sum(m.moles, 1)

thermal_energy(m) == heat_capacity(m) * m.temperature

clear(m) ==
    IF ~m.immutable
    THEN invalidate([m EXCEPT !.moles = << >>])
    ELSE m

clear_with_vol_keeps_flag(m, vol) ==
    clear([m EXCEPT !.temperature = TCMB,
                    !.volume = vol,
                    !.min_heat_capacity = 0])

clear_with_vol(m, vol) ==
    clear([m EXCEPT !.temperature = TCMB,
                    !.volume = vol,
                    !.min_heat_capacity = 0,
                    !.immutable = FALSE])

multiply_keeps_cache(m, multiplier) ==
    IF ~m.immutable
    THEN garbage_collect(
             [m EXCEPT !.moles = [i \in 1 .. Len(m.moles) |-> FScale(m.moles[i], multiplier)]])
    ELSE m

multiply(m, multiplier) ==
    IF ~m.immutable
    THEN garbage_collect(invalidate(
             [m EXCEPT !.moles = [i \in 1 .. Len(m.moles) |-> FScale(m.moles[i], multiplier)]]))
    ELSE m

add(m, num) ==
    IF ~m.immutable
    THEN garbage_collect(invalidate(
             [m EXCEPT !.moles = [i \in 1 .. Len(m.moles) |-> m.moles[i] + num]]))
    ELSE m

copy_from_mutable_with_flag(m, sample) ==
    IF m.immutable THEN m
    ELSE [m EXCEPT !.moles = sample.moles,
                   !.temperature = sample.temperature,
                   !.cached_heat_capacity = sample.cached_heat_capacity,
                   !.immutable = sample.immutable]

copy_from_mutable(m, sample) ==
    IF m.immutable THEN m
    ELSE [m EXCEPT !.moles = sample.moles,
                   !.temperature = sample.temperature,
                   !.cached_heat_capacity = sample.cached_heat_capacity]

\* merge that takes the giver's amounts instead of adding them
merge_overwrites(m, giver) ==
    IF m.immutable THEN m
    ELSE [m EXCEPT !.moles = [i \in 1 .. Len(m.moles) |->
                                 IF i <= Len(giver.moles) THEN giver.moles[i]
                                 ELSE m.moles[i]],
                   !.cached_heat_capacity = heat_capacity(m) + heat_capacity(giver)]

\* merge: the receiver after self.merge(giver)
merge(m, giver) ==
    IF m.immutable THEN m
    ELSE LET our_heat_capacity == heat_capacity(m)
             other_heat_capacity == heat_capacity(giver)
             e == maybe_expand(m, Len(giver.moles))
             summed == [e EXCEPT !.moles = [i \in 1 .. Len(e.moles) |->
                            IF i <= Len(giver.moles) THEN e.moles[i] + giver.moles[i]
                            ELSE e.moles[i]]]
             combined_heat_capacity == our_heat_capacity + other_heat_capacity
             t == IF combined_heat_capacity > MINIMUM_HEAT_CAPACITY
                  THEN set_temperature(summed,
                           FDiv(our_heat_capacity * m.temperature
                                  + other_heat_capacity * giver.temperature,
                                combined_heat_capacity))
                  ELSE summed
         IN  [t EXCEPT !.cached_heat_capacity = combined_heat_capacity]

\* merge: the giver afterwards (its heat capacity has been read, unless the
\* receiver is immutable)
merge_giver(m, giver) == IF m.immutable THEN giver ELSE cache_filled(giver)

adjust_heat(m, heat) ==
    LET cap == heat_capacity(m)
    IN  set_temperature(cache_filled(m), FDiv(cap * m.temperature + heat, cap))

\* remove_ratio_into without the immutable check of multiply on self
remove_ratio_into_unguarded(m, ratio, into) ==
    IF ratio <= 0 THEN [self |-> m, into |-> into]
    ELSE LET r == IF ratio >= Den THEN Den ELSE ratio
         IN  [self |-> garbage_collect(invalidate(
                          [m EXCEPT !.moles = [i \in 1 .. Len(m.moles) |->
                                                  FScale(m.moles[i], Den - r)]])),
              into |-> multiply(copy_from_mutable(into, m), r)]

\* remove_ratio_into: [self, into] afterwards
remove_ratio_into(m, ratio, into) ==
    IF ratio <= 0 THEN [self |-> m, into |-> into]
    ELSE LET r == IF ratio >= Den THEN Den ELSE ratio
         IN  [self |-> multiply(m, Den - r),
              into |-> multiply(copy_from_mutable(into, m), r)]

\* the loop of transfer_gases_to over the listed gases, from position k on;
\* st = [self, into, heat_transfer]
RECURSIVE transfer_loop(_, _, _, _)
transfer_loop(st, ratio, gases, k) ==
    IF k > Len(gases) THEN st
    ELSE LET i == gases[k]
         IN  IF i + 1 <= Len(st.self.moles)
             THEN LET orig == st.self.moles[i + 1]
                      delta == FScale(orig, ratio)
                  IN  transfer_loop(
                          [self |-> [st.self EXCEPT !.moles[i + 1] = orig - delta],
                           into |-> adjust_moles(st.into, i, delta),
                           heat_transfer |-> st.heat_transfer
                               + delta * st.self.temperature * gas_specific_heat(i)],
                          ratio, gases, k + 1)
             ELSE transfer_loop(st, ratio, gases, k + 1)

\* transfer_gases_to: [self, into] afterwards
transfer_gases_to(m, r, gases, into) ==
    LET ratio == clamp01(r)
        initial_energy == thermal_energy(into)
        st == transfer_loop([self |-> m, into |-> cache_filled(into), heat_transfer |-> 0],
                            ratio, gases, 1)
        into2 == invalidate(st.into)
    IN  [self |-> invalidate(st.self),
         into |-> set_temperature(cache_filled(into2),
                      FDiv(initial_energy + st.heat_transfer, heat_capacity(into2)))]

\* f32::abs
FAbs(x) == IF x < 0 THEN 0 - x ELSE x

\* temperature_share that brings self to the sharer's temperature and leaves
\* the sharer alone
temperature_share_keeps_sharer(m, sharer, conduction_coefficient) ==
    [self |-> set_temperature(m, sharer.temperature), sharer |-> sharer,
     ret |-> sharer.temperature]

\* temperature_share: [self, sharer] afterwards and the value returned
temperature_share(m, sharer, conduction_coefficient) ==
    LET temperature_delta == m.temperature - sharer.temperature
    IN  IF FAbs(temperature_delta) > MINIMUM_TEMPERATURE_DELTA_TO_CONSIDER
        THEN LET self_heat_capacity == heat_capacity(m)
                 sharer_heat_capacity == heat_capacity(sharer)
                 m1 == cache_filled(m)
                 s1 == cache_filled(sharer)
             IN  IF sharer_heat_capacity > MINIMUM_HEAT_CAPACITY
                    /\ self_heat_capacity > MINIMUM_HEAT_CAPACITY
                 THEN LET heat == FScale(temperature_delta
                                           * FDiv(self_heat_capacity * sharer_heat_capacity,
                                                  self_heat_capacity + sharer_heat_capacity),
                                         conduction_coefficient)
                          m2 == IF ~m1.immutable
                                THEN set_temperature(m1,
                                         FMax(m1.temperature - FDiv(heat, self_heat_capacity),
                                              TCMB))
                                ELSE m1
                          s2 == IF ~s1.immutable
                                THEN set_temperature(s1,
                                         FMax(s1.temperature + FDiv(heat, sharer_heat_capacity),
                                              TCMB))
                                ELSE s1
                      IN  [self |-> m2, sharer |-> s2, ret |-> s2.temperature]
                 ELSE [self |-> m1, sharer |-> s1, ret |-> s1.temperature]
        ELSE [self |-> m, sharer |-> sharer, ret |-> sharer.temperature]

is_corrupt(m) == ~is_normal(m.temperature) \/ Len(m.moles) > total_num_gases

fix_corruption(m) ==
    LET g == garbage_collect(m)
    IN  IF g.temperature < TCMB \/ ~is_normal(g.temperature)
        THEN set_temperature(g, T_FIXED)
        ELSE g

\* ------------------------------------------------- GasMixture (bitset form)
\* BitVec::get(idx): the bit of gas idx, false beyond the length
bit_get(ids, idx) == idx < Len(ids) /\ ids[idx + 1]

\* bitvec.get(..idx).unwrap_or_else(|| bitvec).count_ones()
count_ones(ids, idx) == Cardinality({k \in 1 .. Len(ids) : k <= idx /\ ids[k]})

\* BitVec::resize(n, false) when shorter
bit_resize(ids, n) == [k \in 1 .. n |-> IF k <= Len(ids) THEN ids[k] ELSE FALSE]

\* BitVec::set(idx, b)
bit_set(ids, idx, b) == [ids EXCEPT ![idx + 1] = b]

\* mole_ids.iter_ones() from bit k on: the gas ids present, ascending
RECURSIVE ones_from(_, _)
ones_from(ids, k) ==
    IF k > Len(ids) THEN << >>
    ELSE (IF ids[k] THEN << k - 1 >> ELSE << >>) \o ones_from(ids, k + 1)

iter_ones(ids) == ones_from(ids, 1)

\* Vec::insert(i, v) and Vec::remove(i), positions counted from 0
insert_at(s, i, v) == SubSeq(s, 1, i) \o << v >> \o SubSeq(s, i + 1, Len(s))

remove_at(s, i) == SubSeq(s, 1, i) \o SubSeq(s, i + 2, Len(s))

\* Ok(count) when the bit is set, Err((count, bitvec.len() <= idx)) otherwise
get_bit_position(bitvec, idx) ==
    [ ok |-> bit_get(bitvec, idx),
      i |-> count_ones(bitvec, idx),
      resize |-> Len(bitvec) <= idx ]

GasMixture_new ==
    [ temperature |-> TCMB,
      volume |-> DEFAULT_VOLUME,
      min_heat_capacity |-> MINIMUM_HEAT_CAPACITY,
      immutable |-> FALSE,
      mole_ids |-> << >>,
      moles |-> << >>,
      heat_capacities |-> << >>,
      cached_heat_capacity |-> NaN ]

\* what a read outside the moles vector can find there
GarbageMoles == 0 .. MaxMoles

\* get_moles: the values the call can return; get_unchecked outside the
\* vector is undefined behaviour and may return anything
GasMixture_get_moles(g, idx) ==
    IF bit_get(g.mole_ids, idx)
    THEN LET i == count_ones(g.mole_ids, idx)
         IN  IF i < Len(g.moles) THEN {g.moles[i + 1]} ELSE GarbageMoles
    ELSE {0}

GasMixture_mark_immutable(g) == [g EXCEPT !.immutable = TRUE]

GasMixture_set_temperature(g, temp) ==
    IF ~g.immutable /\ is_normal(temp)
    THEN [g EXCEPT !.temperature = temp]
    ELSE g

\* how set_moles ends: "none" for a normal return, "panic" when Vec::insert
\* or Vec::remove is out of range, "ub" when get_unchecked_mut is
GasMixture_set_moles_fault(g, idx, amt) ==
    IF ~g.immutable /\ idx < total_num_gases
    THEN LET p == get_bit_position(g.mole_ids, idx)
         IN  IF is_normal(amt) /\ amt > GAS_MIN_MOLES
             THEN IF p.ok
                  THEN (IF p.i >= Len(g.moles) THEN "ub" ELSE "none")
                  ELSE (IF p.i > Len(g.moles) \/ p.i > Len(g.heat_capacities)
                        THEN "panic" ELSE "none")
             ELSE IF p.ok /\ (p.i >= Len(g.moles) \/ p.i >= Len(g.heat_capacities))
                  THEN "panic" ELSE "none"
    ELSE "none"

GasMixture_set_moles(g, idx, amt) ==
    LET p == get_bit_position(g.mole_ids, idx)
        ids == IF p.resize THEN bit_resize(g.mole_ids, idx + 1) ELSE g.mole_ids
        body == IF ~g.immutable /\ idx < total_num_gases
                THEN IF is_normal(amt) /\ amt > GAS_MIN_MOLES
                     THEN IF p.ok
                          THEN [g EXCEPT !.moles[p.i + 1] = amt]
                          ELSE [g EXCEPT !.mole_ids = bit_set(ids, idx, TRUE),
                                         !.moles = insert_at(@, p.i, amt),
                                         !.heat_capacities =
                                             insert_at(@, p.i, gas_specific_heat(idx))]
                     ELSE IF p.ok
                          THEN [g EXCEPT !.moles = remove_at(@, p.i),
                                         !.mole_ids = bit_set(@, idx, FALSE),
                                         !.heat_capacities = remove_at(@, p.i)]
                          ELSE g
                ELSE g
    IN  [body EXCEPT !.cached_heat_capacity = NaN]

\* f32::clamp(0.0, 1e31); the upper end is beyond every amount of the model
GasMixture_clamp(x) == IF x < 0 THEN 0 ELSE x

\* how adjust_moles ends; gas_specific_heat(idx) unwraps GAS_SPECIFIC_HEAT.get(idx),
\* which is None for idx >= total_num_gases
GasMixture_adjust_moles_fault(g, idx, amt) ==
    IF ~g.immutable /\ is_normal(amt)
    THEN LET p == get_bit_position(g.mole_ids, idx)
         IN  IF p.ok
             THEN (IF p.i >= Len(g.moles) THEN "ub"
                   ELSE IF GasMixture_clamp(g.moles[p.i + 1] + amt) <= GAS_MIN_MOLES
                           /\ p.i >= Len(g.heat_capacities)
                   THEN "panic" ELSE "none")
             ELSE IF amt > 0
                     /\ (p.i > Len(g.moles) \/ p.i > Len(g.heat_capacities)
                         \/ idx >= total_num_gases)
                  THEN "panic" ELSE "none"
    ELSE "none"

GasMixture_adjust_moles(g, idx, amt) ==
    IF ~g.immutable /\ is_normal(amt)
    THEN LET p == get_bit_position(g.mole_ids, idx)
             ids == IF p.resize THEN bit_resize(g.mole_ids, idx + 1) ELSE g.mole_ids
         IN  IF p.ok
             THEN LET gas == GasMixture_clamp(g.moles[p.i + 1] + amt)
                  IN  IF ~is_normal(gas) \/ gas <= GAS_MIN_MOLES
                      THEN [g EXCEPT !.moles = remove_at(@, p.i),
                                     !.mole_ids = bit_set(@, idx, FALSE),
                                     !.heat_capacities = remove_at(@, p.i)]
                      ELSE [g EXCEPT !.moles[p.i + 1] = gas]
             ELSE IF amt > 0
                  THEN [g EXCEPT !.mole_ids = bit_set(ids, idx, TRUE),
                                 !.moles = insert_at(@, p.i, amt),
                                 !.heat_capacities = insert_at(@, p.i, gas_specific_heat(idx))]
                  ELSE g
    ELSE g

\* the fold of heat_capacity over enumerate_with_heat, from position k on;
\* the zip stops at the shortest of mole_ids' ones, moles and heat_capacities
RECURSIVE GasMixture_heat_fold(_, _)
GasMixture_heat_fold(g, k) ==
    IF k > Len(g.moles) \/ k > Len(g.heat_capacities) \/ k > Len(iter_ones(g.mole_ids))
    THEN 0
    ELSE g.moles[k] * g.heat_capacities[k] + GasMixture_heat_fold(g, k + 1)

\* heat_capacity(): the cached value when it is Some and normal
GasMixture_heat_capacity(g) ==
    IF is_normal(g.cached_heat_capacity) THEN g.cached_heat_capacity
    ELSE FMax(GasMixture_heat_fold(g, 1), g.min_heat_capacity)

\* heat_capacity() leaves the value it returned in the cache
GasMixture_cache_filled(g) ==
    [g EXCEPT !.cached_heat_capacity = GasMixture_heat_capacity(g)]

GasMixture_clear(g) ==
    IF ~g.immutable
    THEN [g EXCEPT !.mole_ids = << >>,
                   !.moles = << >>,
                   !.heat_capacities = << >>,
                   !.cached_heat_capacity = NaN]
    ELSE g

\* multiply: the cache gets heat_capacity() * multiplier, nothing is collected
GasMixture_multiply(g, multiplier) ==
    IF ~g.immutable
    THEN [g EXCEPT !.cached_heat_capacity = FScale(GasMixture_heat_capacity(g), multiplier),
                   !.moles = [i \in 1 .. Len(g.moles) |-> FScale(g.moles[i], multiplier)]]
    ELSE g

GasMixture_is_corrupt(g) ==
    \/ ~is_normal(g.temperature)
    \/ Len(iter_ones(g.mole_ids)) # Len(g.moles)
    \/ Len(iter_ones(g.mole_ids)) # Len(g.heat_capacities)
    \/ \E k \in 1 .. Len(g.moles) : ~is_normal(g.moles[k])
    \/ \E k \in 1 .. Len(g.heat_capacities) : ~is_normal(g.heat_capacities[k])
    \/ \E k \in 1 .. Len(g.mole_ids) : g.mole_ids[k] /\ k - 1 > total_num_gases

\* copy_from_mutable: an immutable receiver is kept only when the sample is sound
GasMixture_copy_from_mutable(g, sample) ==
    IF g.immutable /\ ~GasMixture_is_corrupt(sample) THEN g
    ELSE [g EXCEPT !.mole_ids = sample.mole_ids,
                   !.moles = sample.moles,
                   !.temperature = sample.temperature,
                   !.heat_capacities = sample.heat_capacities,
                   !.cached_heat_capacity = sample.cached_heat_capacity]

\* slice::swap(a, b), positions counted from 0
swap(s, a, b) == [s EXCEPT ![a + 1] = s[b + 1], ![b + 1] = s[a + 1]]

\* the loop of garbage_collect from position idx on; st = [g, del]
RECURSIVE GasMixture_collect_loop(_, _, _)
GasMixture_collect_loop(st, ones, idx) ==
    IF idx >= Len(st.g.moles) THEN st
    ELSE LET amt == st.g.moles[idx + 1]
         IN  IF ~is_normal(amt) \/ amt <= GAS_MIN_MOLES
             THEN GasMixture_collect_loop([st EXCEPT !.del = @ + 1], ones, idx + 1)
             ELSE IF st.del > 0
             THEN GasMixture_collect_loop(
                      [st EXCEPT !.g.moles = swap(@, idx - st.del, idx),
                                 !.g.mole_ids = bit_set(@, ones[idx + 1], FALSE),
                                 !.g.heat_capacities = swap(@, idx - st.del, idx)],
                      ones, idx + 1)
             ELSE GasMixture_collect_loop(st, ones, idx + 1)

\* how garbage_collect ends: ones[idx] and heat_capacities.swap are bounds-checked
GasMixture_garbage_collect_fault(g) ==
    IF \E idx \in 1 .. Len(g.moles) :
           /\ is_normal(g.moles[idx]) /\ g.moles[idx] > GAS_MIN_MOLES
           /\ \E j \in 1 .. idx - 1 : ~is_normal(g.moles[j]) \/ g.moles[j] <= GAS_MIN_MOLES
           /\ (idx > Len(iter_ones(g.mole_ids)) \/ idx > Len(g.heat_capacities))
    THEN "panic" ELSE "none"

\* garbage_collect: the kept amounts move to the front and the vectors are cut;
\* the bit that is cleared is the one of the amount that moved
GasMixture_garbage_collect(g) ==
    LET st == GasMixture_collect_loop([g |-> g, del |-> 0], iter_ones(g.mole_ids), 0)
        cut(s) == SubSeq(s, 1, IF Len(g.moles) - st.del < Len(s)
                               THEN Len(g.moles) - st.del ELSE Len(s))
    IN  IF st.del > 0
        THEN [st.g EXCEPT !.moles = cut(@), !.heat_capacities = cut(@)]
        ELSE st.g

\* remove_ratio up to the two garbage_collect calls: [self, into]
GasMixture_remove_ratio_scaled(g, ratio, into) ==
    LET r == IF ratio >= Den THEN Den ELSE ratio
    IN  [self |-> GasMixture_multiply(g, Den - r),
         into |-> GasMixture_multiply(GasMixture_copy_from_mutable(into, g), r)]

GasMixture_remove_ratio_fault(g, ratio, into) ==
    IF ratio <= 0 THEN "none"
    ELSE LET s == GasMixture_remove_ratio_scaled(g, ratio, into)
         IN  IF GasMixture_garbage_collect_fault(s.self) = "panic"
                \/ GasMixture_garbage_collect_fault(s.into) = "panic"
             THEN "panic" ELSE "none"

\* remove_ratio: [self, into] afterwards
GasMixture_remove_ratio(g, ratio, into) ==
    IF ratio <= 0 THEN [self |-> g, into |-> into]
    ELSE LET s == GasMixture_remove_ratio_scaled(g, ratio, into)
         IN  [self |-> GasMixture_garbage_collect(s.self),
              into |-> GasMixture_garbage_collect(s.into)]

\* self.mole_ids |= giver.mole_ids, taken as the union of the two sets of gases
bit_or(a, b) ==
    [k \in 1 .. (IF Len(a) >= Len(b) THEN Len(a) ELSE Len(b)) |->
        (k <= Len(a) /\ a[k]) \/ (k <= Len(b) /\ b[k])]

\* the loop of merge over the gases of either mixture in ascending order, from
\* position our_idx on; st = [moles, heat_capacities, fault]
RECURSIVE GasMixture_merge_loop(_, _, _, _, _)
GasMixture_merge_loop(st, ours, giver, both, our_idx) ==
    IF our_idx >= Len(both) \/ st.fault # "none" THEN st
    ELSE LET id == both[our_idx + 1]
             j == count_ones(giver.mole_ids, id) + 1
         IN  IF ~bit_get(giver.mole_ids, id)
             THEN GasMixture_merge_loop(st, ours, giver, both, our_idx + 1)
             ELSE IF ~bit_get(ours, id)
             THEN IF our_idx > Len(st.moles) \/ our_idx > Len(st.heat_capacities)
                  THEN [st EXCEPT !.fault = "panic"]
                  ELSE GasMixture_merge_loop(
                           [st EXCEPT !.moles = insert_at(@, our_idx, giver.moles[j]),
                                      !.heat_capacities =
                                          insert_at(@, our_idx, giver.heat_capacities[j])],
                           ours, giver, both, our_idx + 1)
             ELSE IF our_idx >= Len(st.moles)
                  THEN [st EXCEPT !.fault = "ub"]
                  ELSE GasMixture_merge_loop(
                           [st EXCEPT !.moles[our_idx + 1] = @ + giver.moles[j]],
                           ours, giver, both, our_idx + 1)

GasMixture_merge_joined(g, giver) ==
    GasMixture_merge_loop([moles |-> g.moles, heat_capacities |-> g.heat_capacities,
                           fault |-> "none"],
                          g.mole_ids, giver, iter_ones(bit_or(g.mole_ids, giver.mole_ids)), 0)

GasMixture_merge_fault(g, giver) ==
    IF g.immutable \/ GasMixture_is_corrupt(giver) THEN "none"
    ELSE GasMixture_merge_joined(g, giver).fault

\* merge: the receiver after self.merge(giver)
GasMixture_merge(g, giver) ==
    IF g.immutable \/ GasMixture_is_corrupt(giver) THEN g
    ELSE LET our_heat_capacity == GasMixture_heat_capacity(g)
             other_heat_capacity == GasMixture_heat_capacity(giver)
             st == GasMixture_merge_joined(g, giver)
             summed == [g EXCEPT !.moles = st.moles,
                                 !.heat_capacities = st.heat_capacities,
                                 !.mole_ids = bit_or(g.mole_ids, giver.mole_ids)]
             combined_heat_capacity == our_heat_capacity + other_heat_capacity
             t == IF combined_heat_capacity > MINIMUM_HEAT_CAPACITY
                  THEN GasMixture_set_temperature(summed,
                           FDiv(our_heat_capacity * g.temperature
                                  + other_heat_capacity * giver.temperature,
                                combined_heat_capacity))
                  ELSE summed
         IN  [t EXCEPT !.cached_heat_capacity = combined_heat_capacity]

\* merge: the giver afterwards (its heat capacity has been read)
GasMixture_merge_giver(g, giver) ==
    IF g.immutable \/ GasMixture_is_corrupt(giver) THEN giver
    ELSE GasMixture_cache_filled(giver)

\* ------------------------------------------------------------------- state
VARIABLES
    internal,        \* Arena.internal: the slots, each <<Index, RwLock<Mixture>>>
    first_free_idx,  \* Arena.first_free_idx: head of the free list
    len,             \* Arena.len: the live count (usize read as two's complement)
    ptr,             \* per host datum, its _extools_pointer_gasmixture field
    crashed,         \* the process died executing undefined behaviour
    mix,             \* two mixtures used directly through the Mixture API
    last,            \* the last operation: its name, target and outcome
    thread,          \* per host worker thread, where it is inside a call
    reactions,       \* REACTION_INFO: the reactions as the host listed them
    legacy           \* the bitset GasMixture twins of mix, driven by the same calls

vars == << internal, first_free_idx, len, ptr, crashed, mix, last, thread, reactions, legacy >>

arena_vars == << internal, first_free_idx, len, ptr, crashed, thread, reactions, legacy >>

Datums == 1 .. MaxDatums

\* the host's null value in the handle field
NULL == -2

Threads == 1 .. NumThreads

\* a thread that is not inside any call
IdleThread ==
    [pc |-> "idle", d |-> NULL, idx |-> NULL, src |-> NULL, arg |-> NULL, order |-> << >>,
     todo |-> << >>, ran |-> << >>, stop |-> FALSE]

\* the datum's initial_volume var, which register reads
initial_volume(d) == IF d % 2 = 1 THEN VolA ELSE VolB

\* ------------------------------------------------------------------- Arena
\* Index::get: Some(i) when the top bit is clear
Index_is_some(i) == i >= 0

\* Arena::get: Some(&slot) exactly when the slot exists and its Index is None
Arena_get(idx) ==
    /\ idx >= 0
    /\ idx < Len(internal)
    /\ ~Index_is_some(internal[idx + 1].link)

\* A slot is [link, mix]: the Index and the mixture behind the slot's RwLock.
\* The mixture is the dense Mixture of mixture.rs; the bitset GasMixture of
\* gas_mixture.rs resets min_heat_capacity to MINIMUM_HEAT_CAPACITY where
\* Mixture resets it to 0.0, the same value in the model's units.
\* Arena::slow_push / proper_push: the vector with one more slot
slow_push(value) == Append(internal, [link |-> INVALID, mix |-> value])

\* Arena::remove_unsafe: the slots afterwards
remove_unsafe(idx) ==
    IF idx >= 0 /\ idx < Len(internal)
    THEN [internal EXCEPT ![idx + 1].link = first_free_idx]
    ELSE internal

\* Arena::clear: every slot but the last is linked to its successor
Arena_clear ==
    [i \in 1 .. Len(internal) |->
        IF i < Len(internal) THEN [internal[i] EXCEPT !.link = i] ELSE internal[i]]

\* the values a read of uninitialised memory may give for an Index
GarbageIndex == {INVALID} \cup (0 .. MaxDatums)

\* f32::from_bits(idx as u32) written to the datum, read back with to_bits():
\* the same index, for every index the model reaches
handle_of(idx) == idx

\* ----------------------------------------------------- sequential host (Spec)
Init ==
    /\ internal = << >>
    /\ first_free_idx = INVALID
    /\ len = 0
    /\ ptr = [d \in Datums |-> NULL]
    /\ crashed = FALSE
    /\ mix = << >>
    /\ last = [op |-> "init", h |-> NULL, res |-> "ok", arg |-> 0]
    /\ thread = [t \in Threads |-> IdleThread]
    /\ reactions = << >>
    /\ legacy = << >>

\* a mixture left immutable, non-empty, below TCMB, with a custom
\* min_heat_capacity and a filled heat-capacity cache
DirtyMix(m) ==
    /\ m.immutable
    /\ m.moles # << >>
    /\ m.min_heat_capacity # 0
    /\ m.temperature < TCMB
    /\ ~is_nan(m.cached_heat_capacity)

\* register_gasmix on the free-list path: try_push pops the head and resets it
RegisterRecycle(d) ==
    /\ ~crashed
    /\ ptr[d] = NULL
    /\ Index_is_some(first_free_idx)
    /\ first_free_idx < Len(internal)
    /\ LET idx == first_free_idx
       IN  /\ first_free_idx' = internal[idx + 1].link
           /\ internal' = [internal EXCEPT ![idx + 1].mix = clear_with_vol(@, initial_volume(d))]
           /\ ptr' = [ptr EXCEPT ![d] = handle_of(idx)]
           /\ last' = [op |-> "register_recycle", h |-> idx, res |-> "ok",
                      arg |-> initial_volume(d), dirty |-> DirtyMix(internal[idx + 1].mix)]
    /\ UNCHANGED << len, crashed, reactions, legacy, mix, thread >>

\* try_push when the head names a slot the vector does not have:
\* get_unchecked reads outside the vector (undefined behaviour)
RegisterOutOfBounds(d) ==
    /\ ~crashed
    /\ ptr[d] = NULL
    /\ Index_is_some(first_free_idx)
    /\ first_free_idx >= Len(internal)
    /\ \/ /\ crashed' = TRUE
          /\ last' = [op |-> "register_ub", h |-> first_free_idx, res |-> "abort", arg |-> 0]
          /\ UNCHANGED << internal, first_free_idx, len, ptr, mix, thread, reactions, legacy >>
       \/ /\ \E g \in GarbageIndex : first_free_idx' = g
          /\ ptr' = [ptr EXCEPT ![d] = handle_of(first_free_idx)]
          /\ last' = [op |-> "register_ub", h |-> first_free_idx, res |-> "ok", arg |-> 0]
          /\ UNCHANGED << internal, len, crashed, reactions, legacy, mix, thread >>

\* register_gasmix when the free list is empty: proper_push under the write lock
RegisterGrow(d) ==
    /\ ~crashed
    /\ ptr[d] = NULL
    /\ ~Index_is_some(first_free_idx)
    /\ internal' = slow_push(from_vol(initial_volume(d)))
    /\ len' = Len(internal')
    /\ ptr' = [ptr EXCEPT ![d] = handle_of(Len(internal))]
    /\ last' = [op |-> "register_grow", h |-> Len(internal), res |-> "ok",
                arg |-> initial_volume(d)]
    /\ UNCHANGED << first_free_idx, crashed, reactions, legacy, mix, thread >>

\* unregister_gasmix of a datum that holds a handle
Unregister(d) ==
    /\ ~crashed
    /\ ptr[d] # NULL
    /\ len > 0 - MaxUnderflow
    /\ LET idx == ptr[d]
       IN  /\ internal' = remove_unsafe(idx)
           /\ first_free_idx' = IF idx < Len(internal) THEN idx ELSE first_free_idx
           /\ len' = IF idx < Len(internal) THEN len - 1 ELSE len
           /\ last' = [op |-> "unregister", h |-> idx, res |-> "ok", arg |-> 0]
    /\ ptr' = [ptr EXCEPT ![d] = NULL]
    /\ UNCHANGED << crashed, reactions, legacy, mix, thread >>

\* _shut_down_gases: Arena::clear; the host's datums are gone with the world
ShutDown ==
    /\ ~crashed
    /\ internal' = Arena_clear
    /\ len' = 0
    /\ first_free_idx' = 0
    /\ ptr' = [d \in Datums |-> NULL]
    /\ last' = [op |-> "shutdown", h |-> NULL, res |-> "ok", arg |-> 0]
    /\ UNCHANGED << crashed, reactions, legacy, mix, thread >>

\* with_gas_mixture_mut: the slots after f ran on the datum's mixture
slot_set(h, m) == [internal EXCEPT ![h + 1].mix = m]

\* the mixture a live handle names
slot_mix(h) == internal[h + 1].mix

\* with_mix_mut fails: the field is null, or Arena::get finds no live slot
HookFails(d, name) ==
    /\ ~crashed
    /\ ~(ptr[d] # NULL /\ Arena_get(ptr[d]))
    /\ last' = [op |-> name, h |-> ptr[d], res |-> "err", arg |-> 0]
    /\ UNCHANGED << internal, first_free_idx, len, ptr, crashed, reactions, legacy, mix, thread >>

\* with_mix_mut succeeds and leaves m in the slot
HookWrites(d, name, m) ==
    /\ ~crashed
    /\ ptr[d] # NULL
    /\ Arena_get(ptr[d])
    /\ internal' = slot_set(ptr[d], m)
    /\ last' = [op |-> name, h |-> ptr[d], res |-> "ok", arg |-> 0]
    /\ UNCHANGED << first_free_idx, len, ptr, crashed, reactions, legacy, mix, thread >>

\* _set_moles_hook with a finite, non-negative amount
SetMolesHook(d) ==
    \E id \in {0}, vf \in {MolesIn} :
        \/ HookFails(d, "set_moles")
        \/ /\ ptr[d] # NULL /\ Arena_get(ptr[d])
           /\ HookWrites(d, "set_moles", set_moles(slot_mix(ptr[d]), id, vf))

\* _mark_immutable_hook
MarkImmutableHook(d) ==
    \/ HookFails(d, "mark_immutable")
    \/ /\ ptr[d] # NULL /\ Arena_get(ptr[d])
       /\ HookWrites(d, "mark_immutable", mark_immutable(slot_mix(ptr[d])))

\* _min_heat_cap_hook
SetMinHeatCapacityHook(d) ==
    \E amt \in {MinCapIn} :
        \/ HookFails(d, "set_min_heat_capacity")
        \/ /\ ptr[d] # NULL /\ Arena_get(ptr[d])
           /\ HookWrites(d, "set_min_heat_capacity",
                         set_min_heat_capacity(slot_mix(ptr[d]), amt))

\* _adjust_heat_hook, cooling a mixture that is not yet below TCMB
AdjustHeatHook(d) ==
    \E heat \in {0 - HeatIn} :
        \/ HookFails(d, "adjust_heat")
        \/ /\ ptr[d] # NULL /\ Arena_get(ptr[d])
           /\ slot_mix(ptr[d]).temperature >= TCMB
           /\ HookWrites(d, "adjust_heat", adjust_heat(slot_mix(ptr[d]), heat))

\* register, unregister and the hooks: everything but shutdown
NextAlloc ==
    \E d \in Datums :
        \/ RegisterRecycle(d)
        \/ RegisterGrow(d)
        \/ Unregister(d)
        \/ SetMolesHook(d)
        \/ MarkImmutableHook(d)
        \/ SetMinHeatCapacityHook(d)
        \/ AdjustHeatHook(d)

SpecAlloc == Init /\ [][NextAlloc]_vars

Next ==
    \/ NextAlloc
    \/ ShutDown
    \/ \E d \in Datums : RegisterOutOfBounds(d)

Spec == Init /\ [][Next]_vars

\* ------------------------------------------------ worker threads (SpecConc)
\* GAS_MIXTURES is RwLock<Arena<RwLock<GasMixture>>>.  A thread holds the
\* arena's read lock from the first step of a call until the call returns; the
\* write lock is taken and dropped inside one step.  thread[t].order lists the
\* slot write locks t holds, in the order it took them.
arena_readers == { t \in Threads : thread[t].pc \notin {"idle", "reg_grow", "react_body"} }

slot_locked(i) == \E t \in Threads : \E k \in 1 .. Len(thread[t].order) : thread[t].order[k] = i

\* no other thread is registering or unregistering datum d
DatumFree(d) == \A t \in Threads : thread[t].d # d

conc_unchanged == UNCHANGED << crashed, reactions, legacy, mix, last >>

\* register_gasmix: GAS_MIXTURES.read()
RegBegin(t, d) ==
    /\ thread[t].pc = "idle"
    /\ ptr[d] = NULL
    /\ DatumFree(d)
    /\ thread' = [thread EXCEPT ![t] = [IdleThread EXCEPT !.pc = "reg_locked", !.d = d]]
    /\ UNCHANGED << internal, first_free_idx, len, ptr >>
    /\ conc_unchanged

\* try_push: self.first_free_idx.get(); None drops the read lock and falls to
\* the growth loop
RegLoadHead(t) ==
    /\ thread[t].pc = "reg_locked"
    /\ thread' = IF Index_is_some(first_free_idx)
                 THEN [thread EXCEPT ![t].pc = "reg_popped", ![t].idx = first_free_idx]
                 ELSE [thread EXCEPT ![t].pc = "reg_grow"]
    /\ UNCHANGED << internal, first_free_idx, len, ptr >>
    /\ conc_unchanged

\* try_push: self.first_free_idx.copy(&entry.0)
RegCopyLink(t) ==
    /\ thread[t].pc = "reg_popped"
    /\ first_free_idx' = internal[thread[t].idx + 1].link
    /\ thread' = [thread EXCEPT ![t].pc = "reg_write"]
    /\ UNCHANGED << internal, len, ptr >>
    /\ conc_unchanged

\* try_push: f(&mut entry.1.write()), f = clear_with_vol(vol)
RegReset(t) ==
    /\ thread[t].pc = "reg_write"
    /\ ~slot_locked(thread[t].idx)
    /\ internal' = [internal EXCEPT ![thread[t].idx + 1].mix =
                       clear_with_vol(@, initial_volume(thread[t].d))]
    /\ thread' = [thread EXCEPT ![t].pc = "reg_store"]
    /\ UNCHANGED << first_free_idx, len, ptr >>
    /\ conc_unchanged

\* the read lock is dropped and the index written to the datum
RegStore(t) ==
    /\ thread[t].pc = "reg_store"
    /\ ptr' = [ptr EXCEPT ![thread[t].d] = handle_of(thread[t].idx)]
    /\ thread' = [thread EXCEPT ![t] = IdleThread]
    /\ UNCHANGED << internal, first_free_idx, len >>
    /\ conc_unchanged

\* the growth loop: try_write_for succeeds once no reader is left
RegGrowLocked(t) ==
    /\ thread[t].pc = "reg_grow"
    /\ arena_readers = {}
    /\ internal' = slow_push(from_vol(initial_volume(thread[t].d)))
    /\ len' = Len(internal')
    /\ ptr' = [ptr EXCEPT ![thread[t].d] = handle_of(Len(internal))]
    /\ thread' = [thread EXCEPT ![t] = IdleThread]
    /\ UNCHANGED first_free_idx
    /\ conc_unchanged


\* unregister_gasmix that takes the arena lock shared, next to the readers
UnregLocked_shared(t, d) ==
    /\ thread[t].pc = "idle"
    /\ ptr[d] # NULL
    /\ DatumFree(d)
    /\ len > 0 - MaxUnderflow
    /\ LET idx == ptr[d]
       IN  /\ internal' = remove_unsafe(idx)
           /\ first_free_idx' = IF idx < Len(internal) THEN idx ELSE first_free_idx
           /\ len' = IF idx < Len(internal) THEN len - 1 ELSE len
    /\ ptr' = [ptr EXCEPT ![d] = NULL]
    /\ UNCHANGED thread
    /\ conc_unchanged

\* unregister_gasmix: try_write_for, Arena::remove, the field set to null
UnregLocked(t, d) ==
    /\ thread[t].pc = "idle"
    /\ ptr[d] # NULL
    /\ DatumFree(d)
    /\ arena_readers = {}
    /\ len > 0 - MaxUnderflow
    /\ LET idx == ptr[d]
       IN  /\ internal' = remove_unsafe(idx)
           /\ first_free_idx' = IF idx < Len(internal) THEN idx ELSE first_free_idx
           /\ len' = IF idx < Len(internal) THEN len - 1 ELSE len
    /\ ptr' = [ptr EXCEPT ![d] = NULL]
    /\ UNCHANGED thread
    /\ conc_unchanged

\* with_mixes_mut(a, b): both handle fields are read, then
\* with_gas_mixtures_mut takes GAS_MIXTURES.read()
PairBegin(t, a, b) ==
    /\ thread[t].pc = "idle"
    /\ ptr[a] # NULL
    /\ ptr[b] # NULL
    /\ thread' = [thread EXCEPT ![t] =
                     [IdleThread EXCEPT !.pc = "pair_locked", !.src = ptr[a], !.arg = ptr[b]]]
    /\ UNCHANGED << internal, first_free_idx, len, ptr >>
    /\ conc_unchanged

\* every mole count of m is at most MaxMoles: growth stops there
Bounded(m) == \A i \in 1 .. Len(m.moles) : m.moles[i] <= MaxMoles

\* the closures the hooks hand to with_mixes_mut: _merge_hook, and
\* _remove_ratio_hook with ratio 1.0
PairOps == {"merge", "remove_ratio_into"}

\* f(a, b): [self, into] afterwards
pair_apply(op, a, b) ==
    IF op = "merge"
    THEN [self |-> merge(a, b), into |-> merge_giver(a, b)]
    ELSE remove_ratio_into(a, Den, b)

\* src == arg taking the two-lock path of src != arg
PairSameLock_twice(t) ==
    /\ thread[t].pc = "pair_locked"
    /\ thread[t].src = thread[t].arg
    /\ IF Arena_get(thread[t].src)
       THEN /\ ~slot_locked(thread[t].src)
            /\ thread' = [thread EXCEPT ![t].pc = "pair_src",
                                        ![t].order = << thread[t].src >>]
       ELSE thread' = [thread EXCEPT ![t] = IdleThread]
    /\ UNCHANGED << internal, first_free_idx, len, ptr >>
    /\ conc_unchanged

\* src == arg: gas_mixtures.get(src)?.write(), the only lock of the call
PairSameLock(t) ==
    /\ thread[t].pc = "pair_locked"
    /\ thread[t].src = thread[t].arg
    /\ IF Arena_get(thread[t].src)
       THEN /\ ~slot_locked(thread[t].src)
            /\ thread' = [thread EXCEPT ![t].pc = "pair_same",
                                        ![t].order = << thread[t].src >>]
       ELSE thread' = [thread EXCEPT ![t] = IdleThread]
    /\ UNCHANGED << internal, first_free_idx, len, ptr >>
    /\ conc_unchanged

\* src == arg: copied = mix.clone(); f(mix, &mut copied); copied and the guard
\* are dropped
PairSameRun(t) ==
    /\ thread[t].pc = "pair_same"
    /\ \E op \in PairOps :
          LET live == slot_mix(thread[t].src)
              copied == live
              r == pair_apply(op, live, copied)
          IN  /\ Bounded(r.self)
              /\ internal' = slot_set(thread[t].src, r.self)
              /\ last' = [op |-> "pair_same", h |-> thread[t].src, res |-> op,
                          arg |-> thread[t].arg]
    /\ thread' = [thread EXCEPT ![t] = IdleThread]
    /\ UNCHANGED << first_free_idx, len, ptr, crashed, reactions, legacy, mix >>

\* src != arg: the first argument of f, gas_mixtures.get(src)?.write()
PairLockSrc(t) ==
    /\ thread[t].pc = "pair_locked"
    /\ thread[t].src # thread[t].arg
    /\ IF Arena_get(thread[t].src)
       THEN /\ ~slot_locked(thread[t].src)
            /\ thread' = [thread EXCEPT ![t].pc = "pair_src",
                                        ![t].order = << thread[t].src >>]
       ELSE thread' = [thread EXCEPT ![t] = IdleThread]
    /\ UNCHANGED << internal, first_free_idx, len, ptr >>
    /\ conc_unchanged

\* the second argument of f, gas_mixtures.get(arg)?.write()
PairLockArg(t) ==
    /\ thread[t].pc = "pair_src"
    /\ IF Arena_get(thread[t].arg)
       THEN /\ ~slot_locked(thread[t].arg)
            /\ thread' = [thread EXCEPT ![t].pc = "pair_both",
                                        ![t].order = Append(@, thread[t].arg)]
       ELSE thread' = [thread EXCEPT ![t] = IdleThread]
    /\ UNCHANGED << internal, first_free_idx, len, ptr >>
    /\ conc_unchanged

\* f runs on the two locked mixtures and every guard is dropped
PairRun(t) ==
    /\ thread[t].pc = "pair_both"
    /\ \E op \in PairOps :
          LET r == pair_apply(op, slot_mix(thread[t].src), slot_mix(thread[t].arg))
          IN  /\ Bounded(r.self)
              /\ internal' = [internal EXCEPT ![thread[t].src + 1].mix = r.self,
                                              ![thread[t].arg + 1].mix = r.into]
    /\ thread' = [thread EXCEPT ![t] = IdleThread]
    /\ UNCHANGED << first_free_idx, len, ptr >>
    /\ conc_unchanged

NextConc ==
    \E t \in Threads :
        \/ \E d \in Datums : RegBegin(t, d)
        \/ RegLoadHead(t)
        \/ RegCopyLink(t)
        \/ RegReset(t)
        \/ RegStore(t)
        \/ RegGrowLocked(t)
        \/ \E d \in Datums : UnregLocked(t, d)
        \/ \E a \in Datums, b \in Datums : PairBegin(t, a, b)
        \/ PairSameLock(t)
        \/ PairSameRun(t)
        \/ PairLockSrc(t)
        \/ PairLockArg(t)
        \/ PairRun(t)

SpecConc == Init /\ [][NextConc]_vars

\* ------------------------------------------- pair calls on a filled arena
\* The arena after MaxDatums registrations (slot d - 1 for datum d) and,
\* for some of the datums, _set_moles_hook(0, MolesIn): every slot is live, the
\* free list is empty, no thread is inside a call.
PairInputs(d) ==
    { from_vol(initial_volume(d)),
      set_moles(from_vol(initial_volume(d)), 0, MolesIn) }

InitPair ==
    /\ internal \in { slots \in [Datums -> [link : {INVALID},
                                            mix : UNION { PairInputs(d) : d \in Datums }]] :
                        \A d \in Datums : slots[d].mix \in PairInputs(d) }
    /\ first_free_idx = INVALID
    /\ len = MaxDatums
    /\ ptr = [d \in Datums |-> handle_of(d - 1)]
    /\ crashed = FALSE
    /\ mix = << >>
    /\ last = [op |-> "init", h |-> NULL, res |-> "ok", arg |-> 0]
    /\ thread = [t \in Threads |-> IdleThread]
    /\ reactions = << >>
    /\ legacy = << >>

NextPair ==
    \E t \in Threads :
        \/ \E a \in Datums, b \in Datums : PairBegin(t, a, b)
        \/ PairSameLock(t)
        \/ PairSameRun(t)
        \/ PairLockSrc(t)
        \/ PairLockArg(t)
        \/ PairRun(t)

\* a thread that holds the only lock its call needs is scheduled again
SpecPair ==
    /\ InitPair
    /\ [][NextPair]_vars
    /\ \A t \in Threads : WF_vars(PairSameRun(t))

\* ------------------------------------------ entry points on any handle value
\* the handle values a caller may pass: every slot the arena can have, and one
\* index beyond
RawHandles == 0 .. MaxDatums

\* with_gas_mixture_mut(id, f), f = set_moles(0, MolesIn): get(id) is None and
\* the error is returned, or f runs under the slot's write lock
WithGasMixtureMut(i) ==
    /\ ~crashed
    /\ IF Arena_get(i)
       THEN /\ internal' = slot_set(i, set_moles(slot_mix(i), 0, MolesIn))
            /\ last' = [op |-> "with_gas_mixture_mut", h |-> i, res |-> "ok", arg |-> i]
       ELSE /\ UNCHANGED internal
            /\ last' = [op |-> "with_gas_mixture_mut", h |-> i, res |-> "err", arg |-> i]
    /\ UNCHANGED << first_free_idx, len, ptr, crashed, reactions, legacy, mix, thread >>

\* with_gas_mixtures_mut(src, arg, f): an error from either get drops the
\* guards taken so far and returns before f runs
WithGasMixturesMut(src, arg) ==
    /\ ~crashed
    /\ \E op \in PairOps :
          IF Arena_get(src) /\ Arena_get(arg)
          THEN LET r == pair_apply(op, slot_mix(src), slot_mix(arg))
               IN  /\ Bounded(r.self)
                   /\ internal' = IF src = arg THEN slot_set(src, r.self)
                                  ELSE [internal EXCEPT ![src + 1].mix = r.self,
                                                        ![arg + 1].mix = r.into]
                   /\ last' = [op |-> "with_gas_mixtures_mut", h |-> src, res |-> "ok",
                               arg |-> arg]
          ELSE /\ UNCHANGED internal
               /\ last' = [op |-> "with_gas_mixtures_mut", h |-> src, res |-> "err",
                           arg |-> arg]
    /\ UNCHANGED << first_free_idx, len, ptr, crashed, reactions, legacy, mix, thread >>

NextHandle ==
    \/ \E d \in Datums :
          \/ RegisterRecycle(d)
          \/ RegisterGrow(d)
          \/ Unregister(d)
    \/ \E i \in RawHandles : WithGasMixtureMut(i)
    \/ \E src \in RawHandles, arg \in RawHandles : WithGasMixturesMut(src, arg)

SpecHandle == Init /\ [][NextHandle]_vars

\* --------------------------------------------- hooks on any host argument
\* _set_temperature_hook with the host's number v: a non-finite v is an error
\* before the mixture is looked up; else with_mix_mut runs
\* set_temperature(v.max(2.7))
SetTemperatureHook(d) ==
    \E v \in {NaN, PosInf, NegInf, 0, TCMB - 1, 0 - TempIn, TempIn} :
        /\ ~crashed
        /\ IF is_finite(v) /\ ptr[d] # NULL /\ Arena_get(ptr[d])
           THEN internal' = slot_set(ptr[d], set_temperature(slot_mix(ptr[d]), FMax(v, TCMB)))
           ELSE UNCHANGED internal
        /\ last' = [op |-> "set_temperature_hook", h |-> ptr[d], arg |-> v,
                    res |-> IF is_finite(v) /\ ptr[d] # NULL /\ Arena_get(ptr[d])
                            THEN "ok" ELSE "err"]
        /\ UNCHANGED << first_free_idx, len, ptr, crashed, reactions, legacy, mix, thread >>

\* _set_moles_hook with the host's number vf for gas 0: a non-finite or
\* negative vf is an error before the mixture is looked up
SetMolesHookArgs(d) ==
    \E vf \in {NaN, PosInf, NegInf, 0 - MolesIn, 0, MolesIn} :
        /\ ~crashed
        /\ IF is_finite(vf) /\ vf >= 0 /\ ptr[d] # NULL /\ Arena_get(ptr[d])
           THEN internal' = slot_set(ptr[d], set_moles(slot_mix(ptr[d]), 0, vf))
           ELSE UNCHANGED internal
        /\ last' = [op |-> "set_moles_hook", h |-> ptr[d], arg |-> vf,
                    res |-> IF is_finite(vf) /\ vf >= 0 /\ ptr[d] # NULL /\ Arena_get(ptr[d])
                            THEN "ok" ELSE "err"]
        /\ UNCHANGED << first_free_idx, len, ptr, crashed, reactions, legacy, mix, thread >>

NextHook ==
    \E d \in Datums :
        \/ RegisterRecycle(d)
        \/ RegisterGrow(d)
        \/ Unregister(d)
        \/ MarkImmutableHook(d)
        \/ SetTemperatureHook(d)
        \/ SetMolesHookArgs(d)

SpecHook == Init /\ [][NextHook]_vars

\* --------------------------------------------------------------- reactions
\* The reactions the host can list: an identifier, a priority, and the
\* precondition (minimum temperature, minimum moles of gas 0).
ReactionInputs ==
    { [id |-> 1, priority |-> 1, min_temp |-> TCMB, min_gas |-> 0],
      [id |-> 2, priority |-> 2, min_temp |-> TCMB, min_gas |-> MolesIn] }

\* SSair.gas_reactions: the reactions in any order, none listed twice
HostLists ==
    { l \in UNION { [1 .. n -> ReactionInputs] : n \in 0 .. Cardinality(ReactionInputs) } :
        \A i \in DOMAIN l : \A j \in DOMAIN l : i # j => l[i] # l[j] }

\* Reaction::check_conditions
check_conditions(r, m) ==
    /\ r.min_temp <= m.temperature
    /\ get_moles(m, 0) >= r.min_gas

\* get_reaction_info: one Reaction per element of the host's list, in the
\* list's order
get_reaction_info(gas_reactions) == gas_reactions

\* the identifiers of the reactions of rs, from position k on, whose
\* precondition m meets
RECURSIVE reactable_from(_, _, _)
reactable_from(m, rs, k) ==
    IF k > Len(rs) THEN << >>
    ELSE IF check_conditions(rs[k], m)
         THEN << rs[k].id >> \o reactable_from(m, rs, k + 1)
         ELSE reactable_from(m, rs, k + 1)

\* GasMixture::all_reactable: reactions.iter().filter_map(..).collect()
all_reactable(m) == reactable_from(m, reactions, 1)

\* GasMixture::can_react: reactions.iter().any(..)
can_react(m) == \E k \in 1 .. Len(reactions) : check_conditions(reactions[k], m)

\* the BTreeMap<ReactionPriority, Reaction> the crate keeps: one reaction per
\* priority, a later insert replacing an earlier one
with_reactions ==
    [p \in { reactions[k].priority : k \in 1 .. Len(reactions) } |->
        reactions[CHOOSE k \in 1 .. Len(reactions) :
                     /\ reactions[k].priority = p
                     /\ \A j \in 1 .. Len(reactions) : reactions[j].priority = p => j <= k]]

\* map.values().rev(): the values from the greatest key down
RECURSIVE values_rev(_, _)
values_rev(map, keys) ==
    IF keys = {} THEN << >>
    ELSE LET top == CHOOSE p \in keys : \A q \in keys : q <= p
         IN  << map[top] >> \o values_rev(map, keys \ {top})

\* Mixture::all_reactable_with_slice
all_reactable_with_slice(m, map) == reactable_from(m, values_rev(map, DOMAIN map), 1)

\* can_react_with_reactions looking at the highest priority only
can_react_with_reactions_first(m, map) ==
    /\ DOMAIN map # {}
    /\ check_conditions(values_rev(map, DOMAIN map)[1], m)

\* Mixture::can_react_with_reactions
can_react_with_reactions(m, map) ==
    \E k \in 1 .. Len(values_rev(map, DOMAIN map)) :
        check_conditions(values_rev(map, DOMAIN map)[k], m)

\* _update_reactions: *REACTION_INFO.write() = Some(get_reaction_info())
UpdateReactions ==
    /\ \E gas_reactions \in HostLists : reactions' = get_reaction_info(gas_reactions)
    /\ last' = [op |-> "update_reactions", h |-> NULL, res |-> "ok", arg |-> 0]
    /\ UNCHANGED << internal, first_free_idx, len, ptr, crashed, mix, thread, legacy >>

\* a thread holds the read lock of slot i
slot_read(i) == \E t \in Threads : thread[t].pc = "react_read" /\ thread[t].src = i

\* _react_hook: with_mix reads the handle, with_gas_mixture takes
\* GAS_MIXTURES.read()
ReactBegin(t, d) ==
    /\ thread[t].pc = "idle"
    /\ ptr[d] # NULL
    /\ thread' = [thread EXCEPT ![t] = [IdleThread EXCEPT !.pc = "react_locked", !.src = ptr[d]]]
    /\ UNCHANGED << internal, first_free_idx, len, ptr, reactions >>
    /\ conc_unchanged

\* with_gas_mixture: get(id)?.read()
ReactLock(t) ==
    /\ thread[t].pc = "react_locked"
    /\ IF Arena_get(thread[t].src)
       THEN /\ ~slot_locked(thread[t].src)
            /\ thread' = [thread EXCEPT ![t].pc = "react_read"]
       ELSE thread' = [thread EXCEPT ![t] = IdleThread]
    /\ UNCHANGED << internal, first_free_idx, len, ptr, reactions >>
    /\ conc_unchanged

\* ReactCollect that carries the read guard into the loop over the bodies
ReactCollect_keeps_guard(t) ==
    /\ thread[t].pc = "react_read"
    /\ thread' = [thread EXCEPT ![t].pc = "react_body",
                                ![t].order = << thread[t].src >>,
                                ![t].todo = all_reactable(slot_mix(thread[t].src))]
    /\ UNCHANGED << internal, first_free_idx, len, ptr, reactions >>
    /\ conc_unchanged

\* f(&mix) = Ok(mix.all_reactable()); with_gas_mixture returns and both guards
\* are dropped
ReactCollect(t) ==
    /\ thread[t].pc = "react_read"
    /\ thread' = [thread EXCEPT ![t].pc = "react_body",
                                ![t].todo = all_reactable(slot_mix(thread[t].src))]
    /\ UNCHANGED << internal, first_free_idx, len, ptr, reactions >>
    /\ conc_unchanged

\* the loop of _react_hook: react_by_id runs the next body, which is host
\* code: it writes the mixture through with_gas_mixture_mut and returns its
\* flags; the loop ends after a result with STOP_REACTIONS
ReactBody(t) ==
    /\ thread[t].pc = "react_body"
    /\ thread[t].todo # << >>
    /\ ~thread[t].stop
    /\ ~slot_locked(thread[t].src)
    /\ ~slot_read(thread[t].src)
    /\ internal' = IF Arena_get(thread[t].src)
                   THEN slot_set(thread[t].src, set_moles(slot_mix(thread[t].src), 0, MolesIn))
                   ELSE internal
    /\ \E flag \in BOOLEAN :
          thread' = [thread EXCEPT ![t].todo = Tail(thread[t].todo),
                                   ![t].ran = Append(thread[t].ran, Head(thread[t].todo)),
                                   ![t].stop = flag]
    /\ last' = [op |-> "react_body", h |-> thread[t].src, res |-> "ok",
                arg |-> Head(thread[t].todo)]
    /\ UNCHANGED << first_free_idx, len, ptr, crashed, mix, reactions, legacy >>

\* _react_hook returns ret: STOP_REACTIONS was seen, or no reaction is left
ReactReturn(t) ==
    /\ thread[t].pc = "react_body"
    /\ thread[t].stop \/ thread[t].todo = << >>
    /\ thread' = [thread EXCEPT ![t] = IdleThread]
    /\ last' = [op |-> "react", h |-> thread[t].src, arg |-> thread[t].ran,
                res |-> IF thread[t].stop THEN "stop" ELSE "ok", left |-> thread[t].todo]
    /\ UNCHANGED << internal, first_free_idx, len, ptr, crashed, mix, reactions, legacy >>

NextReact ==
    \/ UpdateReactions
    \/ \E t \in Threads :
          \/ \E d \in Datums : ReactBegin(t, d)
          \/ ReactLock(t)
          \/ ReactCollect(t)
          \/ ReactBody(t)
          \/ ReactReturn(t)

SpecReact == InitPair /\ [][NextReact]_vars

\* the two mixtures used directly: self (1) and other (2)
MixIds == {1, 2}

\* ----------------------------------- both mixture forms side by side (SpecEquiv)
\* mix[x] is a dense Mixture and legacy[x] the bitset GasMixture that has
\* received the same calls; both start from new()
InitEquiv ==
    /\ internal = << >>
    /\ first_free_idx = INVALID
    /\ len = 0
    /\ ptr = [d \in Datums |-> NULL]
    /\ crashed = FALSE
    /\ mix = [x \in MixIds |-> Mixture_new]
    /\ legacy = [x \in MixIds |-> GasMixture_new]
    /\ last = [op |-> "init", h |-> NULL, idx |-> NULL, arg |-> 0, res |-> "ok", n |-> 0]
    /\ thread = [t \in Threads |-> IdleThread]
    /\ reactions = << >>

\* one call made on both forms: fault is how the bitset form's call ends (idx
\* is the gas, or the other mixture of a pair call). A
\* panic ends the process; undefined behaviour either ends it or goes unnoticed
EquivStep(name, x, idx, arg, fault, newmix, newlegacy) ==
    /\ ~crashed
    /\ last.n < MaxSteps
    /\ \/ /\ fault = "none"
          /\ mix' = newmix
          /\ legacy' = newlegacy
          /\ last' = [op |-> name, h |-> x, idx |-> idx, arg |-> arg, res |-> "ok",
                      n |-> last.n + 1]
          /\ UNCHANGED crashed
       \/ /\ fault # "none"
          /\ crashed' = TRUE
          /\ last' = [op |-> name, h |-> x, idx |-> idx, arg |-> arg, res |-> fault,
                      n |-> last.n + 1]
          /\ UNCHANGED << mix, legacy >>
       \/ /\ fault = "ub"
          /\ last' = [op |-> name, h |-> x, idx |-> idx, arg |-> arg, res |-> "unnoticed",
                      n |-> last.n + 1]
          /\ UNCHANGED << crashed, mix, legacy >>
    /\ UNCHANGED << internal, first_free_idx, len, ptr, thread, reactions >>

ESetMoles(x) ==
    \E idx \in 0 .. NumGases, amt \in {0 - MolesIn, 0, MolesIn} :
        EquivStep("set_moles", x, idx, amt,
                  GasMixture_set_moles_fault(legacy[x], idx, amt),
                  [mix EXCEPT ![x] = set_moles(@, idx, amt)],
                  [legacy EXCEPT ![x] = GasMixture_set_moles(@, idx, amt)])

EAdjustMoles(x) ==
    \E idx \in 0 .. NumGases, amt \in {0 - MolesIn, MolesIn} :
        EquivStep("adjust_moles", x, idx, amt,
                  GasMixture_adjust_moles_fault(legacy[x], idx, amt),
                  [mix EXCEPT ![x] = adjust_moles(@, idx, amt)],
                  [legacy EXCEPT ![x] = GasMixture_adjust_moles(@, idx, amt)])

EMultiply(x) ==
    \E multiplier \in {0, 1, Den} :
        EquivStep("multiply", x, NULL, multiplier, "none",
                  [mix EXCEPT ![x] = multiply(@, multiplier)],
                  [legacy EXCEPT ![x] = GasMixture_multiply(@, multiplier)])

EMerge(x, y) ==
    /\ x # y
    /\ EquivStep("merge", x, y, 0,
                 GasMixture_merge_fault(legacy[x], legacy[y]),
                 [mix EXCEPT ![x] = merge(mix[x], mix[y]), ![y] = merge_giver(mix[x], mix[y])],
                 [legacy EXCEPT ![x] = GasMixture_merge(legacy[x], legacy[y]),
                                ![y] = GasMixture_merge_giver(legacy[x], legacy[y])])

ERemoveRatio(x, y) ==
    /\ x # y
    /\ \E ratio \in {0, 1, Den} :
          EquivStep("remove_ratio", x, y, ratio,
                    GasMixture_remove_ratio_fault(legacy[x], ratio, legacy[y]),
                    [mix EXCEPT ![x] = remove_ratio_into(mix[x], ratio, mix[y]).self,
                                ![y] = remove_ratio_into(mix[x], ratio, mix[y]).into],
                    [legacy EXCEPT ![x] = GasMixture_remove_ratio(legacy[x], ratio, legacy[y]).self,
                                   ![y] = GasMixture_remove_ratio(legacy[x], ratio, legacy[y]).into])

EClear(x) ==
    EquivStep("clear", x, NULL, 0, "none",
              [mix EXCEPT ![x] = clear(@)],
              [legacy EXCEPT ![x] = GasMixture_clear(@)])

EMarkImmutable(x) ==
    EquivStep("mark_immutable", x, NULL, 0, "none",
              [mix EXCEPT ![x] = mark_immutable(@)],
              [legacy EXCEPT ![x] = GasMixture_mark_immutable(@)])

\* heat_capacity() read on both forms; each leaves its result in its cache
EHeatCapacity(x) ==
    EquivStep("heat_capacity", x, NULL, 0, "none",
              [mix EXCEPT ![x] = cache_filled(@)],
              [legacy EXCEPT ![x] = GasMixture_cache_filled(@)])

NextEquiv ==
    \/ \E x \in MixIds :
          \/ ESetMoles(x)
          \/ EAdjustMoles(x)
          \/ EMultiply(x)
          \/ EClear(x)
          \/ EMarkImmutable(x)
          \/ EHeatCapacity(x)
    \/ \E x \in MixIds, y \in MixIds :
          \/ EMerge(x, y)
          \/ ERemoveRatio(x, y)

SpecEquiv == InitEquiv /\ [][NextEquiv]_vars

\* --------------------------------------------- heat conduction (SpecShare)
\* two dense mixtures built with set_moles, set_temperature and mark_immutable,
\* then put through temperature_share in either direction
ShareTemps == {TempLow, TCMB, TempIn, T_FIXED}

ShareInputs ==
    { IF im THEN mark_immutable(m) ELSE m :
        im \in BOOLEAN,
        m \in { set_temperature(set_moles(Mixture_new, 0, a), t) :
                  a \in {0, MolesIn, MaxMoles}, t \in ShareTemps } }

\* conduction coefficients in 1/Den: -1, 0, 0.5, 1 and 3
ShareCoefficients == {0 - Den, 0, 1, Den, 3 * Den}

InitShare ==
    /\ internal = << >>
    /\ first_free_idx = INVALID
    /\ len = 0
    /\ ptr = [d \in Datums |-> NULL]
    /\ crashed = FALSE
    /\ mix \in [MixIds -> ShareInputs]
    /\ legacy = << >>
    /\ last = [op |-> "init", h |-> NULL, arg |-> NULL, k |-> 0, res |-> 0, n |-> 0,
               ta |-> 0, tb |-> 0]
    /\ thread = [t \in Threads |-> IdleThread]
    /\ reactions = << >>

\* x.temperature_share(&mut y, k)
TemperatureShare(x, y) ==
    /\ x # y
    /\ last.n < MaxOps
    /\ \E k \in ShareCoefficients :
          LET r == temperature_share(mix[x], mix[y], k)
          IN  /\ mix' = [mix EXCEPT ![x] = r.self, ![y] = r.sharer]
              /\ last' = [op |-> "temperature_share", h |-> x, arg |-> y, k |-> k,
                          res |-> r.ret, n |-> last.n + 1,
                          ta |-> mix[x].temperature, tb |-> mix[y].temperature]
    /\ UNCHANGED arena_vars

NextShare == \E x \in MixIds, y \in MixIds : TemperatureShare(x, y)

SpecShare == InitShare /\ [][NextShare]_vars


\* --------------------------------------- comparison and visibility (SpecObserve)
\* the step of the visibility scale and its top step
MOLES_GAS_VISIBLE_STEP == 2

FACTOR_GAS_VISIBLE_MAX == 20

\* the visibility threshold registered for gas 0; gas 1 has none
VisThreshold == 5

\* gas_visibility(idx): Option<f32> as a record, some = FALSE for None
gas_visibility(idx) ==
    IF idx = 0 THEN [some |-> TRUE, amt |-> VisThreshold]
    ELSE [some |-> FALSE, amt |-> 0]

\* f32 ceil of a / b for whole a and b > 0
FCeilDiv(a, b) == 0 - ((0 - a) \div b)

\* visibility_step that rounds the quotient down
visibility_step_floor(gas_amt) ==
    FMax(IF gas_amt \div MOLES_GAS_VISIBLE_STEP <= FACTOR_GAS_VISIBLE_MAX
         THEN gas_amt \div MOLES_GAS_VISIBLE_STEP ELSE FACTOR_GAS_VISIBLE_MAX, 1)

visibility_step(gas_amt) ==
    FMax(IF FCeilDiv(gas_amt, MOLES_GAS_VISIBLE_STEP) <= FACTOR_GAS_VISIBLE_MAX
         THEN FCeilDiv(gas_amt, MOLES_GAS_VISIBLE_STEP) ELSE FACTOR_GAS_VISIBLE_MAX, 1)

\* the fold of compare over zip_longest(a, b) from position k on: a pair gives
\* |b - a|, an entry only one side has gives its own value
RECURSIVE compare_fold(_, _, _, _)
compare_fold(a, b, k, acc) ==
    IF k > Len(a) /\ k > Len(b) THEN acc
    ELSE LET item == IF k <= Len(a) /\ k <= Len(b) THEN FAbs(b[k] - a[k])
                     ELSE IF k <= Len(a) THEN a[k] ELSE b[k]
         IN  compare_fold(a, b, k + 1, FMax(acc, item))

\* compare that stops at the end of self's vector
compare_self_length(m, sample) ==
    compare_fold(m.moles,
                 SubSeq(sample.moles, 1,
                        IF Len(sample.moles) < Len(m.moles) THEN Len(sample.moles)
                        ELSE Len(m.moles)),
                 1, 0)

compare(m, sample) == compare_fold(m.moles, sample.moles, 1, 0)

is_visible(m) ==
    \E i \in 1 .. Len(m.moles) :
        gas_visibility(i - 1).some /\ m.moles[i] >= gas_visibility(i - 1).amt

\* what vis_hash writes into the hasher from entry k on: the index and the step
\* of every gas above its threshold. The digest is taken to tell any two
\* write sequences apart, so the sequence stands for the digest
RECURSIVE vis_hash_loop(_, _)
vis_hash_loop(ms, k) ==
    IF k > Len(ms) THEN << >>
    ELSE IF gas_visibility(k - 1).some /\ ms[k] > gas_visibility(k - 1).amt
         THEN << k - 1, visibility_step(ms[k]) >> \o vis_hash_loop(ms, k + 1)
         ELSE vis_hash_loop(ms, k + 1)

vis_hash(m) == vis_hash_loop(m.moles, 1)

\* mole amounts below, at and above the threshold, and at and past the top step
ObserveMoles ==
    {0 - MolesIn, 0}
    \cup (VisThreshold - 1 .. VisThreshold + 3)
    \cup {FACTOR_GAS_VISIBLE_MAX * MOLES_GAS_VISIBLE_STEP,
          FACTOR_GAS_VISIBLE_MAX * MOLES_GAS_VISIBLE_STEP + 3}

InitObserve ==
    /\ internal = << >>
    /\ first_free_idx = INVALID
    /\ len = 0
    /\ ptr = [d \in Datums |-> NULL]
    /\ crashed = FALSE
    /\ mix = [x \in MixIds |-> Mixture_new]
    /\ legacy = << >>
    /\ last = [op |-> "init", h |-> NULL, arg |-> NULL, res |-> 0]
    /\ thread = [t \in Threads |-> IdleThread]
    /\ reactions = << >>

ObserveStep(name, x, arg, res, newmix) ==
    /\ mix' = newmix
    /\ last' = [op |-> name, h |-> x, arg |-> arg, res |-> res]
    /\ UNCHANGED << internal, first_free_idx, len, ptr, crashed, thread, reactions, legacy >>

OSetMoles(x) ==
    \E idx \in 0 .. NumGases - 1, amt \in ObserveMoles :
        ObserveStep("set_moles", x, idx, amt, [mix EXCEPT ![x] = set_moles(@, idx, amt)])

OCompare(x, y) == ObserveStep("compare", x, y, compare(mix[x], mix[y]), mix)

OIsVisible(x) == ObserveStep("is_visible", x, NULL, is_visible(mix[x]), mix)

OVisHash(x) == ObserveStep("vis_hash", x, NULL, vis_hash(mix[x]), mix)

NextObserve ==
    \E x \in MixIds :
        \/ OSetMoles(x)
        \/ OIsVisible(x)
        \/ OVisHash(x)
        \/ \E y \in MixIds : OCompare(x, y)

SpecObserve == InitObserve /\ [][NextObserve]_vars


\* ------------------------------------------------ corruption repair (SpecCorrupt)
\* mole vectors of up to one entry more than the gas list has gases (the gas
\* list can be loaded again with fewer gases than a stored vector has entries)
RECURSIVE CorruptMoles(_)
CorruptMoles(n) ==
    IF n = 0 THEN { << >> }
    ELSE CorruptMoles(n - 1)
         \cup { Append(ms, a) : ms \in { s \in CorruptMoles(n - 1) : Len(s) = n - 1 },
                                a \in {0, MolesIn} }

\* the mixtures the repair is written for: sound ones, and ones whose
\* temperature is not normal or whose vector is longer than the gas list
CorruptInputs ==
    [ temperature : {TempIn, 0, NaN, PosInf},
      volume : {DEFAULT_VOLUME},
      min_heat_capacity : {0},
      moles : CorruptMoles(NumGases + 1),
      cached_heat_capacity : {NaN},
      immutable : BOOLEAN ]

InitCorrupt ==
    /\ internal = << >>
    /\ first_free_idx = INVALID
    /\ len = 0
    /\ ptr = [d \in Datums |-> NULL]
    /\ crashed = FALSE
    /\ mix \in [MixIds -> CorruptInputs]
    /\ legacy = << >>
    /\ last = [op |-> "init", h |-> NULL, n |-> 0]
    /\ thread = [t \in Threads |-> IdleThread]
    /\ reactions = << >>

CorruptStep(name, x, newmix) ==
    /\ last.n < MaxOps
    /\ mix' = newmix
    /\ last' = [op |-> name, h |-> x, n |-> last.n + 1]
    /\ UNCHANGED << internal, first_free_idx, len, ptr, crashed, thread, reactions, legacy >>

\* fix_corruption called on one mixture
CFixCorruption(x) ==
    CorruptStep("fix_corruption", x, [mix EXCEPT ![x] = fix_corruption(@)])

\* _fix_corrupted_atmos: every mixture that reads as corrupt gets fix_corruption
FixCorruptedAtmos ==
    CorruptStep("fix_corrupted_atmos", NULL,
                [x \in DOMAIN mix |->
                    IF is_corrupt(mix[x]) THEN fix_corruption(mix[x]) ELSE mix[x]])

CMarkImmutable(x) ==
    CorruptStep("mark_immutable", x, [mix EXCEPT ![x] = mark_immutable(@)])

NextCorrupt ==
    \/ \E x \in MixIds : CFixCorruption(x) \/ CMarkImmutable(x)
    \/ FixCorruptedAtmos

SpecCorrupt == InitCorrupt /\ [][NextCorrupt]_vars


\* ---------------------------------- hooks that lock the two slots themselves
\* (SpecCustom).  _equalize_with_hook gets the two slot locks from
\* with_gas_mixtures_custom and takes write on the first and read on the second;
\* _scrub_into_hook gets the arena from with_all_mixtures and takes write on both.
\* A thread at "eq_both" holds the read lock of its second slot.
custom_read(i) == \E t \in Threads : thread[t].pc = "eq_both" /\ thread[t].arg = i

\* with_mixes_custom: both handle fields are read, with_gas_mixtures_custom
\* takes GAS_MIXTURES.read()
EqualizeBegin(t, a, b) ==
    /\ thread[t].pc = "idle"
    /\ ptr[a] # NULL
    /\ ptr[b] # NULL
    /\ thread' = [thread EXCEPT ![t] =
                     [IdleThread EXCEPT !.pc = "eq_locked", !.src = ptr[a], !.arg = ptr[b]]]
    /\ UNCHANGED << internal, first_free_idx, len, ptr >>
    /\ conc_unchanged

\* gas_mixtures.get(src)? and gas_mixtures.get(arg)? (the same entry when
\* src == arg), then the closure's src_lock.write()
EqualizeLockSrc(t) ==
    /\ thread[t].pc = "eq_locked"
    /\ IF Arena_get(thread[t].src) /\ Arena_get(thread[t].arg)
       THEN /\ ~slot_locked(thread[t].src)
            /\ ~custom_read(thread[t].src)
            /\ thread' = [thread EXCEPT ![t].pc = "eq_src",
                                        ![t].order = << thread[t].src >>]
       ELSE thread' = [thread EXCEPT ![t] = IdleThread]
    /\ UNCHANGED << internal, first_free_idx, len, ptr >>
    /\ conc_unchanged

\* the closure's total_lock.read(): waits while any thread holds the write
\* lock of that slot
EqualizeLockTotal(t) ==
    /\ thread[t].pc = "eq_src"
    /\ ~slot_locked(thread[t].arg)
    /\ thread' = [thread EXCEPT ![t].pc = "eq_both"]
    /\ UNCHANGED << internal, first_free_idx, len, ptr >>
    /\ conc_unchanged

\* src_gas.copy_from_mutable(&total_gas); src_gas.multiply(vol / total_gas.volume)
equalize_apply(src_gas, total_gas) ==
    multiply(copy_from_mutable(src_gas, total_gas),
             (src_gas.volume * Den) \div total_gas.volume)

\* the closure's body, then every guard is dropped
EqualizeRun(t) ==
    /\ thread[t].pc = "eq_both"
    /\ LET r == equalize_apply(slot_mix(thread[t].src), slot_mix(thread[t].arg))
       IN  /\ Bounded(r)
           /\ internal' = slot_set(thread[t].src, r)
    /\ thread' = [thread EXCEPT ![t] = IdleThread]
    /\ UNCHANGED << first_free_idx, len, ptr >>
    /\ conc_unchanged

\* _scrub_into_hook: the handle fields are read, with_all_mixtures takes
\* GAS_MIXTURES.read()
ScrubBegin(t, a, b) ==
    /\ thread[t].pc = "idle"
    /\ ptr[a] # NULL
    /\ ptr[b] # NULL
    /\ thread' = [thread EXCEPT ![t] =
                     [IdleThread EXCEPT !.pc = "scrub_locked", !.src = ptr[a], !.arg = ptr[b]]]
    /\ UNCHANGED << internal, first_free_idx, len, ptr >>
    /\ conc_unchanged

\* src_gas = all_mixtures.get(src)?.write()
ScrubLockSrc(t) ==
    /\ thread[t].pc = "scrub_locked"
    /\ IF Arena_get(thread[t].src)
       THEN /\ ~slot_locked(thread[t].src)
            /\ ~custom_read(thread[t].src)
            /\ thread' = [thread EXCEPT ![t].pc = "scrub_src",
                                        ![t].order = << thread[t].src >>]
       ELSE thread' = [thread EXCEPT ![t] = IdleThread]
    /\ UNCHANGED << internal, first_free_idx, len, ptr >>
    /\ conc_unchanged

\* dest_gas = all_mixtures.get(into)?.write()
ScrubLockDest(t) ==
    /\ thread[t].pc = "scrub_src"
    /\ IF Arena_get(thread[t].arg)
       THEN /\ ~slot_locked(thread[t].arg)
            /\ ~custom_read(thread[t].arg)
            /\ thread' = [thread EXCEPT ![t].pc = "scrub_both",
                                        ![t].order = Append(@, thread[t].arg)]
       ELSE thread' = [thread EXCEPT ![t] = IdleThread]
    /\ UNCHANGED << internal, first_free_idx, len, ptr >>
    /\ conc_unchanged

\* the loop over gases_to_scrub from position k on: each listed gas moves from
\* removed to buffer
RECURSIVE scrub_loop(_, _, _)
scrub_loop(st, gases, k) ==
    IF k > Len(gases) THEN st
    ELSE scrub_loop([buffer |-> set_moles(st.buffer, gases[k], get_moles(st.removed, gases[k])),
                     removed |-> set_moles(st.removed, gases[k], 0)],
                    gases, k + 1)

\* the body of _scrub_into_hook: removed and buffer are the two fresh mixtures
\* of src's volume that with_new_mix_and_lock hands to the closures;
\* [self, into] afterwards
scrub_apply(src_gas, dest_gas, ratio, gases) ==
    LET r == remove_ratio_into(src_gas, ratio, from_vol(src_gas.volume))
        st == scrub_loop([buffer |-> set_temperature(from_vol(r.self.volume),
                                                     get_temperature(r.self)),
                          removed |-> r.into],
                         gases, 1)
    IN  [self |-> merge(r.self, st.removed), into |-> merge(dest_gas, st.buffer)]

\* the closures run and every guard is dropped
ScrubRun(t) ==
    /\ thread[t].pc = "scrub_both"
    /\ \E ratio \in {1, Den} :
          LET r == scrub_apply(slot_mix(thread[t].src), slot_mix(thread[t].arg),
                               ratio, << 0 >>)
          IN  /\ Bounded(r.self)
              /\ Bounded(r.into)
              /\ internal' = [internal EXCEPT ![thread[t].src + 1].mix = r.self,
                                              ![thread[t].arg + 1].mix = r.into]
    /\ thread' = [thread EXCEPT ![t] = IdleThread]
    /\ UNCHANGED << first_free_idx, len, ptr >>
    /\ conc_unchanged

NextCustom ==
    \E t \in Threads :
        \/ \E a \in Datums, b \in Datums : EqualizeBegin(t, a, b)
        \/ EqualizeLockSrc(t)
        \/ EqualizeLockTotal(t)
        \/ EqualizeRun(t)
        \/ \E a \in Datums, b \in Datums : ScrubBegin(t, a, b)
        \/ ScrubLockSrc(t)
        \/ ScrubLockDest(t)
        \/ ScrubRun(t)

SpecCustom == InitPair /\ [][NextCustom]_vars


\* --------------------------------- registration next to readers (SpecGrow)
\* Threads register and unregister datums and call equalize_with.  A thread
\* inside a call keeps running (weak fairness of its steps); the growth loop
\* of register_gasmix tries again every 500 microseconds, so it gets the lock
\* if the lock is free again and again (strong fairness of RegGrowLocked).
GrowStep(t) ==
    \/ RegLoadHead(t)
    \/ RegCopyLink(t)
    \/ RegReset(t)
    \/ RegStore(t)
    \/ EqualizeLockSrc(t)
    \/ EqualizeLockTotal(t)
    \/ EqualizeRun(t)

NextGrow ==
    \E t \in Threads :
        \/ \E d \in Datums : RegBegin(t, d)
        \/ GrowStep(t)
        \/ RegGrowLocked(t)
        \/ \E d \in Datums : UnregLocked(t, d)
        \/ \E a \in Datums, b \in Datums : EqualizeBegin(t, a, b)

SpecGrow ==
    /\ Init
    /\ [][NextGrow]_vars
    /\ \A t \in Threads : WF_vars(GrowStep(t)) /\ SF_vars(RegGrowLocked(t))

\* ------------------------------------------------------------ arena claims
\* the host holds a handle to slot i
Held(i) == \E d \in Datums : ptr[d] = i

SlotIds == 0 .. (Len(internal) - 1)

\* follow the free list from index i; ok when it ends in the invalid Index
\* without leaving the vector or meeting a slot twice
RECURSIVE FreeWalk(_, _)
FreeWalk(i, visited) ==
    IF ~Index_is_some(i) THEN [ok |-> TRUE, slots |-> visited]
    ELSE IF i >= Len(internal) \/ i \in visited THEN [ok |-> FALSE, slots |-> visited]
    ELSE FreeWalk(internal[i + 1].link, visited \cup {i})

FreeList == FreeWalk(first_free_idx, {})

\* C1: after any allocate and release calls, every handle the host holds (it
\* was returned by allocate and not released since) names a live slot, so
\* with_one on it succeeds.
C1_HeldHandleIsLive ==
    \A d \in Datums : ptr[d] # NULL => Arena_get(ptr[d])

\* C2: a released slot that no later allocate returned is not live: with_one
\* on its index fails.
C2_ReleasedHandleIsDead ==
    \A i \in SlotIds : ~Held(i) => ~Arena_get(i)

\* C6: every slot is exactly one of live or free: a live slot has an invalid
\* free-link and is not on the free list; a free slot is on the free list
\* once; the list ends in the sentinel and has no cycle.
C6_LiveXorFree ==
    /\ FreeList.ok
    /\ \A i \in SlotIds :
          /\ Held(i) => (internal[i + 1].link = INVALID /\ i \notin FreeList.slots)
          /\ ~Held(i) => i \in FreeList.slots

MolesInputs ==
    { << >>, << MolesIn >>, << 0, MolesIn >>, << MolesIn, MolesIn >> }

\* the mixtures the builders reach: the cache is invalid, or holds the value
\* heat_capacity() computed
MixtureInputs ==
    { cm \in
        { IF c THEN cache_filled(m) ELSE m :
            c \in BOOLEAN,
            m \in [ temperature : {TCMB, TempIn},
                    volume : {DEFAULT_VOLUME},
                    min_heat_capacity : {0, MinCapIn},
                    moles : MolesInputs,
                    cached_heat_capacity : {NaN},
                    immutable : BOOLEAN ] } : TRUE }

\* the second mixture is only read through heat_capacity(), which gives the
\* same value whether or not it is cached: it starts with the cache invalid
OtherInputs == { m \in MixtureInputs : is_nan(m.cached_heat_capacity) }

InitMix ==
    /\ internal = << >>
    /\ first_free_idx = INVALID
    /\ len = 0
    /\ ptr = [d \in Datums |-> NULL]
    /\ crashed = FALSE
    /\ mix \in { f \in [MixIds -> MixtureInputs] : f[2] \in OtherInputs }
    /\ last = [op |-> "init", h |-> NULL, res |-> "ok", arg |-> 0, n |-> 0, was |-> FALSE,
               cap |-> NaN, ratio |-> 0]
    /\ thread = [t \in Threads |-> IdleThread]
    /\ reactions = << >>
    /\ legacy = << >>

\* one mixture changes
MixStep(name, x, m) ==
    /\ last.n < MaxOps
    /\ mix' = [mix EXCEPT ![x] = m]
    /\ last' = [op |-> name, h |-> x, res |-> "ok", arg |-> 0, n |-> last.n + 1,
                was |-> mix[x].immutable, cap |-> mix[x].cached_heat_capacity,
                ratio |-> 0]
    /\ UNCHANGED arena_vars

\* with_gas_mixtures_mut: f ran on (mix[x], mix[y]), or on (mix[x], a clone of
\* it) when x = y; r = [self, into] is what f left behind
\* last.ratio is the ratio argument the closure was given (0 when it takes none)
PairStepRatio(name, x, y, ratio, r) ==
    /\ last.n < MaxOps
    /\ mix' = IF x = y THEN [mix EXCEPT ![x] = r.self]
              ELSE [mix EXCEPT ![x] = r.self, ![y] = r.into]
    /\ last' = [op |-> name, h |-> x, res |-> "ok", arg |-> y, n |-> last.n + 1,
                was |-> mix[x].immutable, cap |-> mix[x].cached_heat_capacity,
                ratio |-> ratio]
    /\ UNCHANGED arena_vars

PairStep(name, x, y, r) == PairStepRatio(name, x, y, 0, r)

MSetTemperature(x) ==
    \E t \in {TCMB, TempIn, 0 - TCMB} :
        MixStep("set_temperature", x, set_temperature(mix[x], t))

MSetMinHeatCapacity(x) ==
    \E c \in {0, MinCapIn} :
        MixStep("set_min_heat_capacity", x, set_min_heat_capacity(mix[x], c))

MMarkImmutable(x) == MixStep("mark_immutable", x, mark_immutable(mix[x]))

MSetMoles(x) ==
    \E idx \in 0 .. NumGases, amt \in {0, MolesIn} :
        MixStep("set_moles", x, set_moles(mix[x], idx, amt))

MAdjustMoles(x) ==
    \E idx \in 0 .. NumGases, amt \in {0 - MolesIn, MolesIn} :
        /\ Bounded(adjust_moles(mix[x], idx, amt))
        /\ MixStep("adjust_moles", x, adjust_moles(mix[x], idx, amt))

AdjustLists ==
    { << <<0, MolesIn>>, <<1, 0 - MolesIn>> >>,
      << <<0, 0 - MolesIn>>, <<0, MolesIn>> >>,
      << <<NumGases, MolesIn>> >> }

MAdjustMulti(x) ==
    \E adj \in AdjustLists :
        /\ Bounded(adjust_multi(mix[x], adj))
        /\ MixStep("adjust_multi", x, adjust_multi(mix[x], adj))

MClear(x) == MixStep("clear", x, clear(mix[x]))

MClearWithVol(x) ==
    \E vol \in {VolA, VolB} : MixStep("clear_with_vol", x, clear_with_vol(mix[x], vol))

MMultiply(x) ==
    \E k \in 0 .. Den : MixStep("multiply", x, multiply(mix[x], k))

MAdd(x) ==
    \E num \in {0 - 1, 1} :
        /\ Bounded(add(mix[x], num))
        /\ MixStep("add", x, add(mix[x], num))

MAdjustHeat(x) ==
    \E heat \in {0 - HeatIn, HeatIn} :
        MixStep("adjust_heat", x, adjust_heat(mix[x], heat))

MFixCorruption(x) == MixStep("fix_corruption", x, fix_corruption(mix[x]))

MHeatCapacity(x) == MixStep("heat_capacity", x, cache_filled(mix[x]))

MMerge(x, y) ==
    /\ Bounded(merge(mix[x], mix[y]))
    /\ PairStep("merge", x, y,
                [self |-> merge(mix[x], mix[y]), into |-> merge_giver(mix[x], mix[y])])

MCopyFrom(x, y) ==
    PairStep("copy_from_mutable", x, y,
             [self |-> copy_from_mutable(mix[x], mix[y]), into |-> mix[y]])

MRemoveRatioInto(x, y) ==
    \E ratio \in (0 - 1) .. (Den + 1) :
        PairStepRatio("remove_ratio_into", x, y, ratio,
                      remove_ratio_into(mix[x], ratio, mix[y]))

MTransferGasesTo(x, y) ==
    \E r \in 1 .. Den, gases \in { <<0>>, <<0, 1>> } :
        /\ x # y
        /\ Bounded(transfer_gases_to(mix[x], r, gases, mix[y]).into)
        /\ PairStepRatio("transfer_gases_to", x, y, r,
                         transfer_gases_to(mix[x], r, gases, mix[y]))

NextMix ==
    \/ \E x \in {1} :
          \/ MSetTemperature(x)
          \/ MSetMinHeatCapacity(x)
          \/ MMarkImmutable(x)
          \/ MSetMoles(x)
          \/ MAdjustMoles(x)
          \/ MAdjustMulti(x)
          \/ MClear(x)
          \/ MClearWithVol(x)
          \/ MMultiply(x)
          \/ MAdd(x)
          \/ MAdjustHeat(x)
          \/ MFixCorruption(x)
          \/ MHeatCapacity(x)
    \/ \E x \in {1}, y \in MixIds :
          \/ MMerge(x, y)
          \/ MCopyFrom(x, y)
          \/ MTransferGasesTo(x, y)
    \/ \E x \in MixIds, y \in MixIds : MRemoveRatioInto(x, y)

SpecMix == InitMix /\ [][NextMix]_vars

\* the mutators that check the immutable flag of the mixture they are called on
GuardedOps ==
    { "set_temperature", "set_moles", "adjust_moles", "adjust_multi", "clear",
      "multiply", "add", "merge", "copy_from_mutable", "adjust_heat",
      "remove_ratio_into" }

\* C7: set_temperature, set_moles, adjust_moles, adjust_multi, clear, multiply,
\* add, merge (receiver), copy_from_mutable (receiver), adjust_heat and
\* remove_ratio_into (source) leave the moles, temperature, volume and
\* min_heat_capacity of an immutable mixture as they were.
C7_ImmutableUnchanged ==
    [][ (last'.op \in GuardedOps /\ mix[last'.h].immutable) =>
            /\ mix'[last'.h].moles = mix[last'.h].moles
            /\ mix'[last'.h].temperature = mix[last'.h].temperature
            /\ mix'[last'.h].volume = mix[last'.h].volume
            /\ mix'[last'.h].min_heat_capacity = mix[last'.h].min_heat_capacity ]_vars

\* a merge into an immutable receiver that holds gas, from a giver that holds gas
C7_Witness ==
    /\ last.op = "merge"
    /\ last.was
    /\ last.arg # last.h
    /\ mix[last.h].immutable
    /\ total_moles(mix[last.h]) > 0
    /\ total_moles(mix[last.arg]) > 0
    /\ mix[last.arg].temperature # mix[last.h].temperature

\* C8: transfer_gases_to called on an immutable source leaves the moles of the
\* source as they were.
C8_TransferKeepsImmutableSource ==
    [][ (last'.op = "transfer_gases_to" /\ mix[last'.h].immutable) =>
            mix'[last'.h].moles = mix[last'.h].moles ]_vars

\* C9: the immutable flag goes from false to true only in mark_immutable and
\* from true to false only in clear_with_vol, on the mixture the method was
\* called on.
C9_FlagChanges ==
    [][ \A i \in MixIds :
            mix'[i].immutable # mix[i].immutable =>
                /\ i = last'.h
                /\ mix'[i].immutable => last'.op = "mark_immutable"
                /\ ~mix'[i].immutable => last'.op = "clear_with_vol" ]_vars

\* clear_with_vol has made an immutable mixture mutable again
C9_Witness ==
    /\ last.op = "clear_with_vol"
    /\ last.was
    /\ ~mix[last.h].immutable

\* the threads that have popped an index on the recycle path of register
Popped == { t \in Threads : thread[t].pc \in {"reg_popped", "reg_write", "reg_store"} }

\* C3: two threads running allocate at once on the recycle path never get the
\* same index, and no two datums hold a handle to the same slot.
C3_NoSharedIndex ==
    /\ \A t \in Popped, u \in Popped : t # u => thread[t].idx # thread[u].idx
    /\ \A d \in Datums, e \in Datums : (d # e /\ ptr[d] # NULL) => ptr[d] # ptr[e]

\* C4: an operation that holds the write locks of two distinct slots took the
\* lock of the lower index first.
C4_AscendingLockOrder ==
    \A t \in Threads :
        Len(thread[t].order) = 2 => thread[t].order[1] < thread[t].order[2]

\* t holds the lock of its source slot and waits for the lock u holds
WaitsFor(t, u) ==
    /\ thread[t].pc = "pair_src"
    /\ Arena_get(thread[t].arg)
    /\ \E k \in 1 .. Len(thread[u].order) : thread[u].order[k] = thread[t].arg

\* C5: pair operations on (a, b) and on (b, a) never reach a state where each
\* thread holds one of the two slot locks and waits for the other.
C5_NoPairDeadlock ==
    \A t \in Threads, u \in Threads : t # u => ~(WaitsFor(t, u) /\ WaitsFor(u, t))

\* the mutators of the mole vector that C11 names
MoleMutators == {"set_moles", "adjust_moles", "adjust_multi", "clear", "multiply"}

\* some gas id has another amount in m than in n
MolesDiffer(m, n) == \E id \in GasIds : get_moles(m, id) # get_moles(n, id)

\* C11: after set_moles, adjust_moles, adjust_multi, clear or multiply has
\* changed a mole count of a mutable mixture, heat_capacity() returns the value
\* recomputed from the current moles, max(min_heat_capacity, sum of
\* moles[i] * specific_heat[i]), not a value cached before the mutation.
C11_FreshAfterMutation ==
    [][ (/\ last'.op \in MoleMutators
         /\ ~mix[last'.h].immutable
         /\ MolesDiffer(mix[last'.h], mix'[last'.h])) =>
            heat_capacity(mix'[last'.h]) = slow_heat_capacity(mix'[last'.h]) ]_vars

\* multiply ran on a mutable mixture whose cache held a value, and the heat
\* capacity read afterwards is another value
C11_Witness ==
    /\ last.op = "multiply"
    /\ ~last.was
    /\ ~is_nan(last.cap)
    /\ heat_capacity(mix[last.h]) # last.cap
    /\ heat_capacity(mix[last.h]) > mix[last.h].min_heat_capacity


\* C12: after self.merge(giver) on a mutable self, the value merge installed in
\* self's heat-capacity cache equals the heat capacity recomputed from the
\* merged mixture, max(min_heat_capacity, sum of moles[i] * specific_heat[i]).
C12_MergeCacheExact ==
    [][ (last'.op = "merge" /\ ~mix[last'.h].immutable) =>
            mix'[last'.h].cached_heat_capacity = slow_heat_capacity(mix'[last'.h]) ]_vars


\* C13: after self.remove_ratio_into(r, dest) with self and dest both mutable
\* (and distinct), for every gas id the moles of self and of dest afterwards
\* add up to the moles self had before, for every ratio and every prior
\* content of dest.
C13_SplitConserves ==
    [][ (/\ last'.op = "remove_ratio_into"
         /\ last'.arg # last'.h
         /\ ~mix[last'.h].immutable
         /\ ~mix[last'.arg].immutable) =>
            \A id \in GasIds :
                get_moles(mix'[last'.h], id) + get_moles(mix'[last'.arg], id)
                    = get_moles(mix[last'.h], id) ]_vars


\* C14: remove_ratio_into(r, dest) behaves for every r as: clamp r to [0, 1],
\* overwrite dest's moles and temperature with self's, scale dest by the
\* clamped r, scale self by one minus the clamped r; so for r <= 0 a mutable
\* dest ends with no moles and self's temperature and self is unchanged, and
\* dest's volume never changes.
C14_SplitIsClampCopyScale ==
    [][ last'.op = "remove_ratio_into" =>
            LET r == clamp01(last'.ratio)
                self == mix[last'.h]
                dest == mix[last'.arg]
                expected == multiply(copy_from_mutable(dest, self), r)
            IN  /\ mix'[last'.h].moles = multiply(self, Den - r).moles
                /\ mix'[last'.h].temperature = self.temperature
                /\ last'.arg # last'.h =>
                      /\ mix'[last'.arg].moles = expected.moles
                      /\ mix'[last'.arg].temperature = expected.temperature
                      /\ mix'[last'.arg].volume = dest.volume ]_vars


\* the split the state was produced by: self immutable, dest another, mutable
\* mixture, ratio above 0
ImmutableSplitDone ==
    /\ last.op = "remove_ratio_into"
    /\ last.was
    /\ last.arg # last.h
    /\ last.ratio > 0
    /\ ~mix[last.arg].immutable

\* C15: when self is immutable and dest is mutable, remove_ratio_into(r, dest)
\* with 0 < r <= 1 leaves self's moles and temperature untouched and leaves
\* dest holding self's moles scaled by r; dest stays mutable, so a further
\* split of that dest by r' removes the fraction r' from it.
C15_ImmutableSplit ==
    [][ /\ (/\ last'.op = "remove_ratio_into"
            /\ last'.arg # last'.h
            /\ last'.ratio \in 1 .. Den
            /\ mix[last'.h].immutable
            /\ ~mix[last'.arg].immutable) =>
               /\ mix'[last'.h].moles = mix[last'.h].moles
               /\ mix'[last'.h].temperature = mix[last'.h].temperature
               /\ ~mix'[last'.arg].immutable
               /\ \A id \in GasIds :
                     get_moles(mix'[last'.arg], id)
                         = FScale(get_moles(mix[last'.h], id), last'.ratio)
        /\ (/\ ImmutableSplitDone
            /\ last'.op = "remove_ratio_into"
            /\ last'.h = last.arg
            /\ last'.ratio \in 1 .. Den) =>
               \A id \in GasIds :
                   get_moles(mix'[last'.h], id)
                       = FScale(get_moles(mix[last'.h], id), Den - last'.ratio) ]_vars

C15_Witness ==
    /\ ImmutableSplitDone
    /\ last.ratio \in 1 .. (Den - 1)
    /\ mix[last.h].immutable
    /\ get_moles(mix[last.h], 0) = MolesIn
    /\ get_moles(mix[last.arg], 0) = FScale(MolesIn, last.ratio)
    /\ get_moles(mix[last.arg], 0) > 0


\* C16: after self.merge(giver) with self mutable (and giver another mixture),
\* for every gas id the moles of self and giver afterwards add up to the moles
\* of self and giver before, and giver's moles are unchanged.
C16_MergeConserves ==
    [][ (/\ last'.op = "merge"
         /\ last'.arg # last'.h
         /\ ~mix[last'.h].immutable) =>
            /\ mix'[last'.arg].moles = mix[last'.arg].moles
            /\ \A id \in GasIds :
                  get_moles(mix'[last'.h], id) + get_moles(mix'[last'.arg], id)
                      = get_moles(mix[last'.h], id) + get_moles(mix[last'.arg], id) ]_vars

\* C16 (as the code has it): merge copies, it does not move. After
\* self.merge(giver) with self mutable, giver's moles are unchanged and self
\* holds what it had plus what giver has, so for every gas id the two mixtures
\* together hold the moles they held before plus giver's moles once more.
C16_MergeAddsGiver ==
    [][ (/\ last'.op = "merge"
         /\ last'.arg # last'.h
         /\ ~mix[last'.h].immutable) =>
            /\ mix'[last'.arg].moles = mix[last'.arg].moles
            /\ \A id \in GasIds :
                  get_moles(mix'[last'.h], id) + get_moles(mix'[last'.arg], id)
                      = get_moles(mix[last'.h], id) + 2 * get_moles(mix[last'.arg], id) ]_vars

\* a merge of two mixtures that both hold gas, into a mutable receiver
C16_Witness ==
    /\ last.op = "merge"
    /\ last.arg # last.h
    /\ ~last.was
    /\ get_moles(mix[last.arg], 0) = MolesIn
    /\ get_moles(mix[last.h], 0) = MolesIn + MolesIn

\* C17: after self.merge(giver) with self mutable, get_moles(self, id) is what
\* self had plus what giver has, self's mole vector has the length of the
\* longer of the two, and giver's moles and temperature are as before.
C17_MergeAddsElementwise ==
    [][ (/\ last'.op = "merge"
         /\ last'.arg # last'.h
         /\ ~mix[last'.h].immutable) =>
            LET self == mix[last'.h]
                giver == mix[last'.arg]
            IN  /\ \A id \in GasIds :
                      get_moles(mix'[last'.h], id) = get_moles(self, id) + get_moles(giver, id)
                /\ Len(mix'[last'.h].moles)
                      = IF Len(self.moles) >= Len(giver.moles)
                        THEN Len(self.moles) ELSE Len(giver.moles)
                /\ mix'[last'.arg].moles = giver.moles
                /\ mix'[last'.arg].temperature = giver.temperature ]_vars

\* a merge that extended the receiver: it now holds gas 1, which only the
\* giver had
C17_Witness ==
    /\ last.op = "merge"
    /\ last.arg # last.h
    /\ ~last.was
    /\ Len(mix[last.arg].moles) = 2
    /\ mix[last.h].moles = << MolesIn, MolesIn >>
    /\ mix[last.arg].moles = << 0, MolesIn >>


\* C18: self.merge(giver) on a mutable self sets self's temperature to the
\* heat-capacity-weighted average (Ca*Ta + Cb*Tb)/(Ca + Cb) of the two
\* temperatures before the merge exactly when Ca + Cb exceeds
\* MINIMUM_HEAT_CAPACITY and leaves it unchanged otherwise; the temperature
\* afterwards lies between min(Ta, Tb) and max(Ta, Tb).
C18_MergeTemperature ==
    [][ (last'.op = "merge" /\ ~mix[last'.h].immutable) =>
            LET Ca == heat_capacity(mix[last'.h])
                Cb == heat_capacity(mix[last'.arg])
                Ta == mix[last'.h].temperature
                Tb == mix[last'.arg].temperature
                T == mix'[last'.h].temperature
            IN  /\ T = IF Ca + Cb > MINIMUM_HEAT_CAPACITY
                       THEN FDiv(Ca * Ta + Cb * Tb, Ca + Cb)
                       ELSE Ta
                /\ T >= (IF Ta <= Tb THEN Ta ELSE Tb)
                /\ T <= FMax(Ta, Tb) ]_vars


\* thread t is past the lock step of a pair call on one slot
InSameHandleCall(t) ==
    /\ thread[t].pc \notin {"idle", "pair_locked"}
    /\ thread[t].src = thread[t].arg

\* C19: a pair operation whose two handles are the same live slot i takes
\* exactly one write lock, on slot i, and never goes on to acquire it a second
\* time; the operation gets the live mixture and a clone of it and returns;
\* afterwards slot i holds what the operation left in the live side (for merge
\* the doubled moles, for remove_ratio_into(1.0) no moles), what it left in
\* the clone is gone, no other slot has changed and the lock is released.
C19_SameHandlePair ==
    /\ [](\A t \in Threads :
             InSameHandleCall(t) =>
                 /\ thread[t].pc = "pair_same"
                 /\ thread[t].order = << thread[t].src >>
                 /\ Arena_get(thread[t].src))
    /\ [][ \A t \in Threads :
             (thread[t].pc = "pair_same" /\ thread'[t].pc = "idle") =>
                 LET i == thread[t].src
                     live == slot_mix(i)
                     after == internal'[i + 1].mix
                 IN  /\ \A j \in SlotIds : j # i => internal'[j + 1] = internal[j + 1]
                     /\ Len(internal') = Len(internal)
                     /\ internal'[i + 1].link = internal[i + 1].link
                     /\ thread'[t].order = << >>
                     /\ after.volume = live.volume
                     /\ \/ \A id \in GasIds : get_moles(after, id) = 2 * get_moles(live, id)
                        \/ \A id \in GasIds : get_moles(after, id) = 0 ]_vars
    /\ \A t \in Threads : (thread[t].pc = "pair_same") ~> (thread[t].pc = "idle")

\* a same-handle remove_ratio_into(1.0) emptied a slot that held gas: the
\* clone, which received all of it, was dropped
C19_Witness ==
    /\ last.op = "pair_same"
    /\ last.res = "remove_ratio_into"
    /\ last.h = 0
    /\ slot_mix(0).moles = << 0 >>
    /\ ~slot_locked(0)


\* handle i names no live slot: it is beyond the slot vector, or the slot is
\* on the free list
NotLive(i) == i >= Len(internal) \/ i \in FreeList.slots

\* C20: a single-handle or two-handle entry point given a handle that is
\* beyond the slot vector or names a free slot returns the "No gas mixture
\* with ID" error and modifies no mixture of the arena, the first mixture of a
\* pair included when only the second handle is invalid; no lock stays held.
C20_InvalidHandleFails ==
    [][ (/\ last'.op \in {"with_gas_mixture_mut", "with_gas_mixtures_mut"}
         /\ (NotLive(last'.h) \/ NotLive(last'.arg))) =>
            /\ last'.res = "err"
            /\ internal' = internal
            /\ \A i \in SlotIds : ~slot_locked(i)' ]_vars


\* C21: the set_temperature entry point called with a NaN or infinite value,
\* and the set_moles entry point called with a NaN, infinite or negative
\* amount, return an error and leave every mixture as it was; a finite
\* temperature below 2.7 is stored as 2.7 (in a live, mutable mixture).
C21_HookRejectsBadValues ==
    [][ /\ (last'.op = "set_temperature_hook" /\ ~is_finite(last'.arg)) =>
               (last'.res = "err" /\ internal' = internal)
        /\ (last'.op = "set_moles_hook" /\ (~is_finite(last'.arg) \/ last'.arg < 0)) =>
               (last'.res = "err" /\ internal' = internal)
        /\ (/\ last'.op = "set_temperature_hook"
            /\ is_finite(last'.arg)
            /\ last'.arg < TCMB
            /\ last'.h # NULL
            /\ Arena_get(last'.h)
            /\ ~slot_mix(last'.h).immutable) =>
               (last'.res = "ok" /\ internal'[last'.h + 1].mix.temperature = TCMB) ]_vars

\* a temperature below 2.7 was asked for on a mixture that was warmer, and
\* 2.7 is what it holds now
C21_Witness ==
    /\ last.op = "set_temperature_hook"
    /\ last.arg = 0 - TempIn
    /\ last.res = "ok"
    /\ ~slot_mix(last.h).immutable
    /\ slot_mix(last.h).temperature = TCMB
    /\ \E i \in SlotIds : slot_mix(i).temperature = TempIn


\* C22: after any sequence of completed mixture operations starting from a
\* constructed mixture, the mixture's temperature is finite and at least TCMB.
C22_TemperatureAtLeastTCMB ==
    \A x \in DOMAIN mix :
        is_finite(mix[x].temperature) /\ mix[x].temperature >= TCMB


\* the priority of the reaction with identifier id
PriorityOf(id) == (CHOOSE r \in ReactionInputs : r.id = id).priority

\* ids lists reactions by strictly descending priority
Descending(ids) ==
    \A k \in 1 .. (Len(ids) - 1) : PriorityOf(ids[k]) > PriorityOf(ids[k + 1])

\* the identifiers of the loaded reactions whose precondition m meets
Matching(m) ==
    { reactions[k].id : k \in { j \in 1 .. Len(reactions) : check_conditions(reactions[j], m) } }

\* ids lists exactly the reactions m meets, each once
ExactlyMatching(ids, m) ==
    /\ { ids[k] : k \in 1 .. Len(ids) } = Matching(m)
    /\ Len(ids) = Cardinality(Matching(m))

\* C23: all_reactable returns the identifiers of exactly the reactions whose
\* precondition holds for the mixture, by strictly descending priority, for
\* every reaction list the host loaded in any order; the react entry point
\* invokes the bodies in that order.
C23_ReactableByPriority ==
    /\ \A i \in SlotIds :
          /\ ExactlyMatching(all_reactable(slot_mix(i)), slot_mix(i))
          /\ Descending(all_reactable(slot_mix(i)))
          /\ ExactlyMatching(all_reactable_with_slice(slot_mix(i), with_reactions), slot_mix(i))
          /\ Descending(all_reactable_with_slice(slot_mix(i), with_reactions))
    /\ \A t \in Threads :
          thread[t].pc = "react_body" => Descending(thread[t].ran \o thread[t].todo)


\* C24: can_react() is true exactly when at least one loaded reaction has its
\* precondition met by the mixture, that is when all_reactable() is not
\* empty, for every mixture and every reaction list.
C24_CanReactIffReactable ==
    \A i \in SlotIds :
        LET m == slot_mix(i)
        IN  /\ can_react_with_reactions(m, with_reactions)
                <=> (all_reactable_with_slice(m, with_reactions) # << >>)
            /\ can_react_with_reactions(m, with_reactions) <=> (Matching(m) # {})
            /\ can_react(m) <=> (all_reactable(m) # << >>)
            /\ can_react(m) <=> (Matching(m) # {})

\* two reactions are loaded; one mixture meets only one of them, another
\* mixture meets both
C24_Witness ==
    /\ Len(reactions) = 2
    /\ \E i \in SlotIds :
          /\ can_react(slot_mix(i))
          /\ Len(all_reactable(slot_mix(i))) = 1
    /\ \E j \in SlotIds : Len(all_reactable(slot_mix(j))) = 2


\* C25: during the react entry point the calling thread holds no mixture slot
\* lock while a reaction body runs: the lock taken to evaluate the
\* preconditions is released before the first body is invoked; and once a
\* body's result has STOP_REACTIONS set, no later body is invoked.
C25_BodiesRunUnlocked ==
    /\ [](\A t \in Threads :
             thread[t].pc = "react_body" =>
                 /\ thread[t].order = << >>
                 /\ t \notin arena_readers)
    /\ [][ \A t \in Threads :
             Len(thread'[t].ran) > Len(thread[t].ran) =>
                 /\ ~thread[t].stop
                 /\ thread[t].pc = "react_body"
                 /\ thread[t].order = << >>
                 /\ thread'[t].ran = Append(thread[t].ran, Head(thread[t].todo)) ]_vars

\* a react call returned after one body whose result had STOP_REACTIONS,
\* with another reactable reaction left uninvoked
C25_Witness ==
    /\ last.op = "react"
    /\ last.res = "stop"
    /\ Len(last.arg) = 1
    /\ last.left # << >>


\* C26: after Arena::clear every slot is free: no index of the vector names a
\* live slot, the live count is 0, and the free list holds every existing
\* index exactly once (so the next allocations return each of them once
\* before the vector grows), whatever mix of live and free slots came before,
\* an arena without slots included.
C26_ClearFreesEverySlot ==
    last.op = "shutdown" =>
        /\ \A i \in SlotIds : ~Arena_get(i)
        /\ len = 0
        /\ FreeList.ok
        /\ FreeList.slots = SlotIds


\* ------------------------------------------------------------- C27
\* the two forms are observably equal: the same get_moles for every gas,
\* the same temperature and the same heat_capacity()
SameObservations(m, g) ==
    /\ \A i \in GasIds : GasMixture_get_moles(g, i) = {get_moles(m, i)}
    /\ g.temperature = m.temperature
    /\ GasMixture_heat_capacity(g) = heat_capacity(m)

\* C27: after every step of the same sequence of set_moles, adjust_moles,
\* multiply, merge, remove_ratio, clear and mark_immutable calls from new(), the
\* dense Mixture and the bitset GasMixture give the same get_moles(i) for every
\* gas, the same temperature and the same heat_capacity()
C27_DenseAgreesWithBitset ==
    ~crashed => \A x \in DOMAIN legacy : SameObservations(mix[x], legacy[x])


\* ------------------------------------------------------------- C28
\* the call the step made named a gas the registry does not have
OutOfRangeCall ==
    /\ last'.op \in {"set_moles", "adjust_moles"}
    /\ last'.idx >= total_num_gases

\* C28: set_moles and adjust_moles with a gas id at or beyond gas_count are
\* silent no-ops on either form: the call returns without error or panic and
\* leaves every get_moles, the temperature and heat_capacity() as they were
C28_OutOfRangeIsNoOp ==
    [][OutOfRangeCall =>
          /\ last'.res = "ok"
          /\ \A x \in MixIds :
                /\ \A i \in 0 .. NumGases :
                      /\ get_moles(mix'[x], i) = get_moles(mix[x], i)
                      /\ GasMixture_get_moles(legacy'[x], i) = GasMixture_get_moles(legacy[x], i)
                /\ mix'[x].temperature = mix[x].temperature
                /\ legacy'[x].temperature = legacy[x].temperature
                /\ heat_capacity(mix'[x]) = heat_capacity(mix[x])
                /\ GasMixture_heat_capacity(legacy'[x]) = GasMixture_heat_capacity(legacy[x])]_vars


\* ------------------------------------------------------------- C29
\* the step was set_moles(i, a) on a mutable dense mixture with i < gas_count
SetMolesCall ==
    /\ last'.op = "set_moles"
    /\ last'.res = "ok"
    /\ ~mix[last'.h].immutable
    /\ last'.idx < total_num_gases

\* C29: after set_moles(i, a) on a mutable mixture with i < gas_count the
\* vector is at least i + 1 long, get_moles(i) is a and every other
\* get_moles(j) is as before, whatever the amount and the current length
C29_SetMolesStores ==
    [][SetMolesCall =>
          LET x == last'.h
              i == last'.idx
          IN  /\ Len(mix'[x].moles) >= i + 1
              /\ get_moles(mix'[x], i) = last'.arg
              /\ \A j \in GasIds \ {i} : get_moles(mix'[x], j) = get_moles(mix[x], j)]_vars


\* ------------------------------------------------------------- C30
\* the step was A.temperature_share(B, k) with both mixtures mutable and both
\* heat capacities above MINIMUM_HEAT_CAPACITY
ShareCall ==
    /\ last'.op = "temperature_share"
    /\ ~mix[last'.h].immutable /\ ~mix[last'.arg].immutable
    /\ heat_capacity(mix[last'.h]) > MINIMUM_HEAT_CAPACITY
    /\ heat_capacity(mix[last'.arg]) > MINIMUM_HEAT_CAPACITY

\* Ca * Ta + Cb * Tb of the two mixtures of the call, in state s
ShareEnergy(s, a, b) ==
    heat_capacity(mix[a]) * s[a].temperature + heat_capacity(mix[b]) * s[b].temperature

\* one unit of the model's temperature on each side
ShareRounding(a, b) == heat_capacity(mix[a]) + heat_capacity(mix[b])

\* Ca * Ta + Cb * Tb is the same after the call as before, within rounding,
\* and the call returned B's temperature after the exchange
ShareConserves ==
    LET a == last'.h
        b == last'.arg
    IN  /\ FAbs(ShareEnergy(mix', a, b) - ShareEnergy(mix, a, b)) <= ShareRounding(a, b)
        /\ last'.res = mix'[b].temperature

\* neither new temperature is lifted to TCMB by the max
ShareUnclamped ==
    LET a == mix[last'.h]
        b == mix[last'.arg]
        q == FScale((a.temperature - b.temperature)
                      * FDiv(heat_capacity(a) * heat_capacity(b),
                             heat_capacity(a) + heat_capacity(b)),
                    last'.k)
    IN  /\ a.temperature - FDiv(q, heat_capacity(a)) >= TCMB
        /\ b.temperature + FDiv(q, heat_capacity(b)) >= TCMB

C34_LiveCountIsExact ==
    /\ len = Cardinality({d \in Datums : ptr[d] # NULL})
    /\ len <= Len(internal)
    /\ len >= 0


\* ------------------------------------------------------------- C39
\* C39: in every reachable state heat_capacity() is the larger of
\* min_heat_capacity and the sum of moles[i] * specific_heat[i], for the
\* mixture's current min_heat_capacity, and so never below that floor
C39_HeatCapacityIsFlooredSum ==
    \A x \in DOMAIN mix :
        /\ heat_capacity(mix[x]) =
               (IF heat_fold(mix[x].moles, 1) >= mix[x].min_heat_capacity
                THEN heat_fold(mix[x].moles, 1) ELSE mix[x].min_heat_capacity)
        /\ heat_capacity(mix[x]) >= mix[x].min_heat_capacity


\* ------------------------------------------------------------- C40
\* adjust_moles called once per pair of the list, in list order, from pair k on
RECURSIVE adjust_each(_, _, _)
adjust_each(m, adjustments, k) ==
    IF k > Len(adjustments) THEN m
    ELSE adjust_each(adjust_moles(m, adjustments[k][1], adjustments[k][2]),
                     adjustments, k + 1)

\* C40: adjust_multi(list) leaves the same get_moles(i) for every i as
\* adjust_moles applied to each pair of the list in list order, also for lists
\* that mix a negative and a positive delta on the same id
C40_BatchEqualsSequential ==
    \A x \in DOMAIN mix : \A adj \in AdjustLists : \A i \in 0 .. NumGases :
        get_moles(adjust_multi(mix[x], adj), i) = get_moles(adjust_each(mix[x], adj, 1), i)


\* ------------------------------------------------------------- C31
\* C31: compare gives the same value with its arguments exchanged and gives
\* zero when both arguments are the same mixture, for mole vectors of equal
\* length and of different lengths
C31_CompareSymmetric ==
    last.op = "compare" =>
        /\ last.res = compare(mix[last.arg], mix[last.h])
        /\ compare(mix[last.h], mix[last.h]) = 0
        /\ (last.h = last.arg => last.res = 0)

C31_Witness ==
    /\ last.op = "compare"
    /\ last.h # last.arg
    /\ Len(mix[last.h].moles) < Len(mix[last.arg].moles)
    /\ last.res > 0

\* ------------------------------------------------------------- C32
\* a fresh mixture holding amt of gas 0
WithGasZero(amt) == set_moles(Mixture_new, 0, amt)

\* the (gas, step) pairs of the gases vis_hash counts
StepPairs(m) ==
    { << i - 1, visibility_step(m.moles[i]) >> :
        i \in { j \in 1 .. Len(m.moles) :
                  gas_visibility(j - 1).some /\ m.moles[j] > gas_visibility(j - 1).amt } }

\* two mixtures have the same digest exactly when the (gas, step) pairs of
\* their counted gases are the same set
HashFollowsPairs ==
    \A x, y \in DOMAIN mix :
        (vis_hash(mix[x]) = vis_hash(mix[y])) <=> (StepPairs(mix[x]) = StepPairs(mix[y]))

\* the vis_hash call was made on a mixture holding only amt of gas 0
HashedGasZero(amt) ==
    /\ last.op = "vis_hash"
    /\ mix[last.h].moles = << amt >>

\* C32 as stated: with threshold 5 for gas 0 and a step of 2, 4 moles of gas 0
\* hash like the empty set, 6 moles hash differently, and 7 moles hash like 6;
\* the digest depends only on the set of (gas, step) pairs
C32_SevenHashesLikeSix ==
    /\ HashedGasZero(VisThreshold - 1) => last.res = vis_hash(Mixture_new)
    /\ HashedGasZero(VisThreshold + 1) => last.res # vis_hash(Mixture_new)
    /\ HashedGasZero(VisThreshold + 2) => last.res = vis_hash(WithGasZero(VisThreshold + 1))
    /\ HashFollowsPairs

\* C32 amended: 7 moles fall in the step of 8 moles (step 4), not in the
\* step of 6 moles (step 3)
C32_SevenHashesLikeEight ==
    /\ HashedGasZero(VisThreshold - 1) => last.res = vis_hash(Mixture_new)
    /\ HashedGasZero(VisThreshold + 1) => last.res # vis_hash(Mixture_new)
    /\ HashedGasZero(VisThreshold + 2) =>
          /\ last.res # vis_hash(WithGasZero(VisThreshold + 1))
          /\ last.res = vis_hash(WithGasZero(VisThreshold + 3))
    /\ HashFollowsPairs

C32_Witness ==
    /\ HashedGasZero(VisThreshold + 2)
    /\ last.res = << 0, 4 >>

\* ------------------------------------------------------------- C33
\* C33: is_visible() is false exactly when vis_hash gives the digest of the
\* empty set, also when an amount equals its threshold
C33_VisibleIffHashNonEmpty ==
    last.op = "is_visible" =>
        (last.res = FALSE <=> vis_hash(mix[last.h]) = vis_hash(Mixture_new))


\* ------------------------------------------------------------- C38
\* C38: after fix_corruption a mixture is not corrupt, whether it is mutable
\* or immutable and whether its temperature was not normal or its vector was
\* longer than the gas list; after the corruption sweep no mixture is corrupt
C38_RepairLeavesNoneCorrupt ==
    /\ last.op = "fix_corruption" => ~is_corrupt(mix[last.h])
    /\ last.op = "fix_corrupted_atmos" => \A x \in DOMAIN mix : ~is_corrupt(mix[x])


\* ------------------------------------------------------------- C36
\* thread t holds the write lock of the slot whose lock it asks for next
WaitsForOwnLock(t) ==
    /\ thread[t].pc \in {"eq_src", "scrub_src"}
    /\ Arena_get(thread[t].arg)
    /\ \E k \in 1 .. Len(thread[t].order) : thread[t].order[k] = thread[t].arg

\* C36: a two-handle call whose two handles name the same live slot never has
\* its thread wait for a lock that the thread itself holds: equalize_with(x, x)
\* and scrub_into(x, x, ...) run to their end
C36_NoWaitOnOwnLock ==
    \A t \in Threads : ~WaitsForOwnLock(t)


\* ------------------------------------------------------------- C35
\* thread t holds the write lock of some slot
HoldsSlotLock(t) == thread[t].order # << >>

\* C35: a thread that holds a slot lock holds the arena lock shared; a step
\* that releases a slot or grows the vector is taken only while no thread
\* holds the arena lock shared or a slot lock; the reset of a recycled slot is
\* taken only while no thread holds that slot's write lock
C35_ArenaLockCoversAccess ==
    /\ [](\A t \in Threads : HoldsSlotLock(t) => t \in arena_readers)
    /\ [][ ((\E d \in Datums : ptr[d] # NULL /\ ptr'[d] = NULL)
            \/ Len(internal') # Len(internal))
           => (arena_readers = {} /\ \A t \in Threads : ~HoldsSlotLock(t)) ]_vars
    /\ [][ \A t \in Threads :
             (thread[t].pc = "reg_write" /\ thread'[t].pc = "reg_store")
                 => ~slot_locked(thread[t].idx) ]_vars

\* a thread waits to grow the vector while another thread is inside a pair
\* call and holds a slot lock
C35_Witness ==
    /\ \E t \in Threads : thread[t].pc = "reg_grow"
    /\ \E u \in Threads : HoldsSlotLock(u) /\ thread[u].pc = "pair_same"


\* ------------------------------------------------------------- C37
\* C37: a register call that found the free list empty and is in its growth
\* loop always gets the arena lock in the end, appends a slot and returns
C37_RegisterReturns ==
    \A t \in Threads : (thread[t].pc = "reg_grow") ~> (thread[t].pc = "idle")

====
